---- MODULE Spec2Model ----
(***************************************************************************)
(* Candidate-scoring aggregation pipeline of Talenti_MVP (backend).        *)
(*                                                                         *)
(*   app/services/ml_client.py    MLClient: _make_request (retry/backoff), *)
(*                                predict_model1/2, get_combined_...       *)
(*   app/services/culture_fit.py  load_org_culture_context                 *)
(*   app/api/scoring.py           score_interview                          *)
(*                                                                         *)
(* JSON values are tagged records (field t), Python None is Null, strings  *)
(* are strings.  Numbers that may be fractional are kept in tenths.        *)
(***************************************************************************)
EXTENDS Integers, Sequences, FiniteSets, TLC

VARIABLES
    client,     \* MLClient configuration: model1_url, model2_url, max_retries
    pc,         \* position of the running entry point
    call,       \* the two prediction coroutines (1 = model 1, 2 = model 2)
    settled,    \* the coroutines' outcomes in the order in which they settled
    req,        \* the ScoringRequest
    reads,      \* the database rows read so far (table, key), in order
    ctx,        \* the locals of score_interview that hold the resolved context
    results,    \* (model1_result, model2_result) of get_combined_predictions
    collected,  \* what collect_dimensions gave for the two results
    posted,     \* the POSTs sent so far: service, URL, endpoint and JSON body
    response    \* what the entry point answered

vars ==
    <<client, pc, call, settled, req, reads, ctx, results, collected, posted, response>>

----------------------------------------------------------------------------
(* Program constants and values *)

\* MLClient.__init__ default of max_retries
DefaultMaxRetries == 3

\* MLClient() with the settings' default URLs
DefaultClient ==
    [model1_url |-> "http://model-service-1:8001",
     model2_url |-> "http://model-service-2:8002",
     max_retries |-> DefaultMaxRetries]

Services == {1, 2}

\* Python None / JSON null
Null == [t |-> "null"]

\* A JSON string, number-free list and a non-empty JSON object known by its name
Str(v) == [t |-> "str", v |-> v]
List(items) == [t |-> "list", items |-> items]
Obj(id) == [t |-> "obj", id |-> id]
EmptyObj == [t |-> "obj", id |-> "{}"]

\* Python truthiness of a JSON value
Truthy(v) ==
    CASE v.t = "null" -> FALSE
      [] v.t = "str" -> v.v # ""
      [] v.t = "list" -> v.items # <<>>
      [] v.t = "obj" -> v # EmptyObj
      [] OTHER -> TRUE

\* A variable that the running entry point does not use
Idle == [t |-> "idle"]

\* Optional string ids: None is "None"; None and "" are falsy
None == "None"
Given(id) == id \notin {None, ""}

\* Variant of OrElse: the operands swapped (y or x)
OrElseSwapped(x, y) == IF Given(y) THEN y ELSE x

\* x or y on optional ids
OrElse(x, y) == IF Given(x) THEN x ELSE y

\* Text is a sequence of fragments (an f-string keeps its pieces); "" is << >>
Text(v) == [t |-> "str", v |-> v]
Blank(text) == \A i \in 1..Len(text) : text[i] \in {"", " "}

\* Numbers are kept in tenths: 80 is Num(800), 70.5 is Num(705)
Num(v10) == [t |-> "num", v10 |-> v10]
NumStr(v10) == [t |-> "numstr", v10 |-> v10]
NaN == [t |-> "nan"]
Inf == [t |-> "inf"]
Absent == [t |-> "absent"]

\* isinstance(v, dict)
IsDict(v) == v.t \in {"obj", "map", "body", "entry"}

----------------------------------------------------------------------------
(* The JSON objects a prediction service may answer with *)

Entry(score, rationale) == [t |-> "entry", score |-> score, rationale |-> rationale]
Item(name, data) == [name |-> name, data |-> data]
Map(items) == [t |-> "map", items |-> items]
Body(error, scores, summary) ==
    [t |-> "body", error |-> error, scores |-> scores, summary |-> summary]

\* {scores: {comm: {score: 80, rationale: "Clear."}, tech: {score: 60}}}
BodyGood ==
    Body(Null, Map(<<Item("comm", Entry(Num(800), Text(<<"Clear.">>))),
                     Item("tech", Entry(Num(600), Null))>>), Null)

\* {scores: {tech: {score: 75}, ownership: {score: "90"}}, summary: "Solid."}
BodyOwn ==
    Body(Null, Map(<<Item("tech", Entry(Num(750), Null)),
                     Item("ownership", Entry(NumStr(900), Null))>>), Text(<<"Solid.">>))

\* {error: "timeout"}
BodyError == Body(Text(<<"timeout">>), Null, Null)

\* {error: "degraded", scores: {comm: {score: 80}}, summary: "Partial."}
BodyErrorScores ==
    Body(Text(<<"degraded">>), Map(<<Item("comm", Entry(Num(800), Null))>>),
         Text(<<"Partial.">>))

\* {scores: {comm: {score: 80}, tech: {score: Infinity}}}
BodyInf ==
    Body(Null, Map(<<Item("comm", Entry(Num(800), Null)),
                     Item("tech", Entry(Inf, Null))>>), Null)

\* {scores: {comm: {score: "abc"}, " ": {score: 10}, tech: 7, clarity: {score: -5},
\*           depth: {rationale: "n/a"}, pace: {score: 120.5}}, summary: "Messy."}
BodyMessy ==
    Body(Null, Map(<<Item("comm", Entry(Text(<<"abc">>), Null)),
                     Item(" ", Entry(Num(100), Null)),
                     Item("tech", Num(70)),
                     Item("clarity", Entry(Num(0 - 50), Null)),
                     Item("depth", Entry(Absent, Text(<<"n/a">>))),
                     Item("pace", Entry(Num(1205), Text(<<" ">>)))>>),
         Text(<<"Messy.">>))

\* {summary: "No data."}
BodyNoScores == Body(Null, Null, Text(<<"No data.">>))

Bodies == {BodyGood, BodyOwn, BodyError, BodyErrorScores, BodyInf, BodyMessy,
           BodyNoScores}

\* {scores: {ownership: {score: 90}}}
BodyA == Body(Null, Map(<<Item("ownership", Entry(Num(900), Null))>>), Null)

\* {scores: {clarity: {score: 50}, ownership: {score: 70}}}
BodyB ==
    Body(Null, Map(<<Item("clarity", Entry(Num(500), Null)),
                     Item("ownership", Entry(Num(700), Null))>>), Null)

\* BodyGood with the keys of its scores map in the other order
BodyGoodReordered ==
    Body(Null, Map(<<Item("tech", Entry(Num(600), Null)),
                     Item("comm", Entry(Num(800), Text(<<"Clear.">>)))>>), Null)

\* {scores: {comm: {score: -5}, tech: {score: 120.5}, pace: {score: "77.5"},
\*           clarity: {score: 49.5, rationale: "Mostly."}}}
BodyRange ==
    Body(Null, Map(<<Item("comm", Entry(Num(0 - 50), Null)),
                     Item("tech", Entry(Num(1205), Null)),
                     Item("pace", Entry(NumStr(775), Null)),
                     Item("clarity", Entry(Num(495), Text(<<"Mostly.">>)))>>), Null)

\* {scores: {comm: {score: 75}, tech: {score: 61}}}: with BodyGood the means are
\* 77.5 and 60.5
BodyTie ==
    Body(Null, Map(<<Item("comm", Entry(Num(750), Null)),
                     Item("tech", Entry(Num(610), Null))>>), Null)

\* {scores: {Comm: {score: 40}, comm: {score: 90}}}
BodyCase ==
    Body(Null, Map(<<Item("Comm", Entry(Num(400), Null)),
                     Item("comm", Entry(Num(900), Null))>>), Null)

\* {scores: {tech: {score: Infinity}}}
BodyOnlyInf == Body(Null, Map(<<Item("tech", Entry(Inf, Null))>>), Null)

\* {scores: {}}
BodyEmptyScores == Body(Null, Map(<< >>), Null)

----------------------------------------------------------------------------
(* Upstream behaviour of one POST attempt *)

StatusCodes == {"500", "503"}
ConnErrors == {"ConnectError", "ReadTimeout"}
UnexpectedErrors == {"RuntimeError"}

\* A JSON body that is not an object (response.json() gives a list)
JsonList == List(<<>>)

\* What one POST can end with: a non-2xx status (raise_for_status raises
\* HTTPStatusError), a connection-level httpx.RequestError, any other exception
\* inside the HTTP client, or a 2xx whose body is not JSON, is JSON but not an
\* object, or is an object.
Responses ==
    [kind : {"status"}, code : StatusCodes]
        \cup [kind : {"conn"}, desc : ConnErrors]
        \cup [kind : {"unexpected"}, desc : UnexpectedErrors]
        \cup [kind : {"notjson"}]
        \cup [kind : {"ok"}, data : {JsonList} \cup Bodies]

NoResponse == [kind |-> "none"]

----------------------------------------------------------------------------
(* MLClient._make_request *)

\* Outcomes of a coroutine
Returned(v) == [kind |-> "return", value |-> v]
Raised(type, msg) == [kind |-> "raise", type |-> type, msg |-> msg]
Pending == [kind |-> "pending"]

\* 2 ** retry_count
RECURSIVE Pow2(_)
Pow2(n) == IF n = 0 THEN 1 ELSE 2 * Pow2(n - 1)

\* The three assertions that open the try block; the failed assertion's message
\* or "" when all hold.
Precondition(c) ==
    IF c.url = "" THEN "Model service URL is not configured"
    ELSE IF c.endpoint = "" THEN "Model service endpoint is required"
    ELSE IF ~c.payload.isDict THEN "Model payload must be a JSON object"
    ELSE ""

\* One entry into _make_request (the first, or the recursive one after a sleep):
\* a failed assertion is turned into MLServiceError by the first except clause,
\* otherwise the POST is sent.
Enter(c) ==
    IF Precondition(c) # ""
    THEN [c EXCEPT !.pc = "settled",
                   !.outcome = Raised("MLServiceError", <<Precondition(c)>>)]
    ELSE [c EXCEPT !.pc = "inflight", !.attempts = @ + 1]

\* Variant of RetryOrRaise: the retry test is off by one (<=)
RetryOrRaiseOnceMore(c, msg) ==
    IF c.retry_count <= client.max_retries
    THEN [c EXCEPT !.pc = "sleeping", !.sleeps = Append(@, Pow2(c.retry_count))]
    ELSE [c EXCEPT !.pc = "settled", !.outcome = Raised("MLServiceError", msg)]

\* except httpx.HTTPStatusError / except httpx.RequestError: sleep 2 ** retry_count
\* and call again with retry_count + 1 while retry_count < max_retries, else raise.
RetryOrRaise(c, msg) ==
    IF c.retry_count < client.max_retries
    THEN [c EXCEPT !.pc = "sleeping", !.sleeps = Append(@, Pow2(c.retry_count))]
    ELSE [c EXCEPT !.pc = "settled", !.outcome = Raised("MLServiceError", msg)]

\* Variant of Unexpected: no final except clause, the exception escapes as it is
UnexpectedEscapes(c, text) ==
    [c EXCEPT !.pc = "settled", !.outcome = Raised("Exception", <<text>>)]

\* The MLServiceError raised inside the try block for a bad 2xx body is caught by
\* the final "except Exception" and raised again with the "Unexpected error" prefix.
Unexpected(c, text) ==
    [c EXCEPT !.pc = "settled",
              !.outcome = Raised("MLServiceError", <<"Unexpected error: ", text>>)]

\* Variant of Handle: a body that is not JSON is retried like a failed status
HandleRetryingBadBody(c, r) ==
    CASE r.kind = "status" ->
            RetryOrRaise(c, <<"Model service returned error: ", r.code>>)
      [] r.kind = "conn" ->
            RetryOrRaise(c, <<"Failed to connect to model service: ", r.desc>>)
      [] r.kind = "unexpected" -> Unexpected(c, r.desc)
      [] r.kind = "notjson" ->
            RetryOrRaise(c, <<"Unexpected error: ", "Model service returned invalid JSON">>)
      [] r.kind = "ok" ->
            IF ~IsDict(r.data)
            THEN Unexpected(c, "Model service returned invalid response shape")
            ELSE [c EXCEPT !.pc = "settled", !.outcome = Returned(r.data)]

\* What the try/except of _make_request does with the answer r to the POST.
Handle(c, r) ==
    CASE r.kind = "status" ->
            RetryOrRaise(c, <<"Model service returned error: ", r.code>>)
      [] r.kind = "conn" ->
            RetryOrRaise(c, <<"Failed to connect to model service: ", r.desc>>)
      [] r.kind = "unexpected" -> Unexpected(c, r.desc)
      [] r.kind = "notjson" -> Unexpected(c, "Model service returned invalid JSON")
      [] r.kind = "ok" ->
            IF ~IsDict(r.data)
            THEN Unexpected(c, "Model service returned invalid response shape")
            ELSE [c EXCEPT !.pc = "settled", !.outcome = Returned(r.data)]

\* History kept for the properties: the last answer and the kinds of the
\* failures that were retried.
Note(c, r) ==
    [c EXCEPT !.last = r,
              !.kinds = IF r.kind \in {"status", "conn"} THEN @ \cup {r.kind} ELSE @]

\* The three steps of a coroutine: it starts running (first entry), its POST is
\* answered with r, its asyncio.sleep returns (recursive entry, retry_count + 1).
StartCall(c) == Enter(c)

\* Variant of RespondCall: the first connection failure after failed statuses
\* starts a retry count of its own
RespondCallCountingApart(c, r) ==
    Handle(Note(IF r.kind = "conn" /\ c.kinds = {"status"}
                THEN [c EXCEPT !.retry_count = 0] ELSE c, r), r)

RespondCall(c, r) == Handle(Note(c, r), r)
WakeCall(c) == Enter([c EXCEPT !.retry_count = @ + 1])

\* A coroutine's settling is recorded in arrival order.
Arrive(s, c) ==
    IF c.pc = "settled"
    THEN Append(settled, [svc |-> s, outcome |-> c.outcome])
    ELSE settled

\* client.post(f"{url}{endpoint}", json=payload): the step from before to after
\* sent one more POST of coroutine s
Sent(s, before, after) ==
    IF after.attempts > before.attempts
    THEN posted \cup {[svc |-> s, url |-> after.url, endpoint |-> after.endpoint,
                       json |-> after.payload]}
    ELSE posted

\* A coroutine object for _make_request(url, endpoint, payload)
NewCall(url, endpoint, payload) ==
    [pc |-> "created", url |-> url, endpoint |-> endpoint, payload |-> payload,
     retry_count |-> 0, attempts |-> 0, sleeps |-> << >>, kinds |-> {},
     last |-> NoResponse, outcome |-> Pending]

NoCall == [NewCall("", "", [isDict |-> FALSE]) EXCEPT !.pc = "none"]
NoCalls == [s \in Services |-> NoCall]

----------------------------------------------------------------------------
(* app/services/culture_fit.py *)

\* The parsed values_framework object: what values.get(key) gives for the keys
\* the module reads (None for a missing key); other says whether the object has
\* any other key.
Values(env, team, tax, tid, ver, sig, tsig, created, other) ==
    [t |-> "values", operating_environment |-> env,
     team_operating_environment |-> team, taxonomy |-> tax, taxonomy_id |-> tid,
     taxonomy_version |-> ver, signals |-> sig, taxonomy_signals |-> tsig,
     taxonomy_created_utc |-> created, other |-> other]

\* The TEXT column: a string that json.loads parses to value, or one it rejects
Json(value) == [t |-> "text", parses |-> TRUE, value |-> value]
NotJson == [t |-> "text", parses |-> FALSE]

\* {} is the only falsy dict
EmptyValues(v) ==
    /\ ~v.other
    /\ \A k \in {"operating_environment", "team_operating_environment", "taxonomy",
                 "taxonomy_id", "taxonomy_version", "signals", "taxonomy_signals",
                 "taxonomy_created_utc"} : v[k] = Null

\* a or b
Or(a, b) == IF Truthy(a) THEN a ELSE b

parse_values_framework(raw) ==
    IF raw = Null THEN Null
    ELSE IF ~raw.parses THEN Null
    ELSE IF raw.value.t = "values" THEN raw.value
    ELSE Null

\* Variant of extract_operating_environment: no isinstance check
extract_operating_environment_unchecked(values) ==
    Or(values.operating_environment, values.team_operating_environment)

extract_operating_environment(values) ==
    LET env == Or(values.operating_environment, values.team_operating_environment)
    IN  IF IsDict(env) THEN env ELSE Null

extract_taxonomy(values) ==
    LET signals == Or(values.signals, values.taxonomy_signals)
    IN  IF IsDict(values.taxonomy) THEN values.taxonomy
        ELSE IF /\ Truthy(values.taxonomy_id)
                /\ Truthy(values.taxonomy_version)
                /\ signals.t = "list"
        THEN [t |-> "obj", id |-> "composed",
              taxonomy_id |-> values.taxonomy_id,
              version |-> values.taxonomy_version,
              created_utc |-> values.taxonomy_created_utc,
              signals |-> signals]
        ELSE Null

load_org_culture_context(organisation) ==
    LET values == parse_values_framework(organisation.values_framework)
        falsy == values = Null \/ EmptyValues(values)
        operating_environment ==
            IF falsy THEN Null ELSE extract_operating_environment(values)
        taxonomy == IF falsy THEN Null ELSE extract_taxonomy(values)
    IN  IF falsy
        THEN Raised("CultureContextError",
                    <<"Organisation values_framework is missing or invalid JSON.">>)
        ELSE IF ~Truthy(operating_environment)
        THEN Raised("CultureContextError",
                    <<"Organisation values_framework missing operating_environment.">>)
        ELSE IF ~Truthy(taxonomy)
        THEN Raised("CultureContextError",
                    <<"Organisation values_framework missing taxonomy.">>)
        ELSE Returned(<<operating_environment, taxonomy>>)

----------------------------------------------------------------------------
(* Specification of load_org_culture_context applied to any stored blob *)

ValuesObjects ==
    { Values(env, team, tax, tid, ver, sig, tsig, created, other) :
        env \in {Null, EmptyObj, Obj("E1"), Text(<<"flat">>)},
        team \in {Null, Obj("E2"), List(<<>>)},
        tax \in {Null, EmptyObj, Obj("T1"), Text(<<"v1">>)},
        tid \in {Null, Text(<<>>), Text(<<"t1">>)},
        ver \in {Null, Text(<<"v1">>)},
        sig \in {Null, List(<<>>), List(<<"s1">>), Text(<<"s1">>)},
        tsig \in {Null, List(<<>>), List(<<"s2">>)},
        created \in {Null, Text(<<"2026-01-01">>)},
        other \in BOOLEAN }

Blobs ==
    {Null, NotJson, Json(List(<<>>)), Json(Text(<<"x">>))}
        \cup {Json(v) : v \in ValuesObjects}

Organisation(id, values_framework) ==
    [t |-> "organisation", id |-> id, values_framework |-> values_framework]

InitCulture ==
    /\ client = DefaultClient
    /\ pc = "Culture"
    /\ call = NoCalls
    /\ settled = << >>
    /\ \E b \in Blobs : req = Organisation("o1", b)
    /\ reads = << >>
    /\ ctx = Idle
    /\ results = Idle
    /\ collected = Idle
    /\ posted = {}
    /\ response = Idle

LoadCulture ==
    /\ pc = "Culture"
    /\ response' = load_org_culture_context(req)
    /\ pc' = "CultureDone"
    /\ UNCHANGED <<client, call, settled, req, reads, ctx, results, collected, posted>>

NextCulture == LoadCulture

SpecCulture == InitCulture /\ [][NextCulture]_vars

----------------------------------------------------------------------------
(* The database that score_interview reads, and the authenticated user *)

User == "u1"

NoRow == [t |-> "norow"]

Interviews == {[id |-> "i1", application_id |-> "a1"]}

Applications == {[id |-> "a1", job_role_id |-> "r2", candidate_profile_id |-> "c1"]}

JobRoles ==
    {[id |-> "r1", organisation_id |-> "o1", department |-> "eng"],
     [id |-> "r2", organisation_id |-> "o2", department |-> None]}

\* o1: nested taxonomy; o2: flat taxonomy fields and the team_ key; o3: nothing
\* stored; o4: an organisation the user is no member of.
Organisations ==
    {Organisation("o1", Json(Values(Obj("E1"), Null, Obj("T1"), Null, Null, Null,
                                    Null, Null, TRUE))),
     Organisation("o2", Json(Values(Null, Obj("E2"), Null, Text(<<"t2">>),
                                    Text(<<"v2">>), List(<<"s1">>), Null, Null, TRUE))),
     Organisation("o3", Null),
     Organisation("o4", Json(Values(Obj("E4"), Null, Obj("T4"), Null, Null, Null,
                                    Null, Null, TRUE)))}

OrgUsers ==
    {[organisation_id |-> o, user_id |-> User] : o \in {"o1", "o2", "o3"}}

\* db.get(Model, key)
DbGet(rows, key) ==
    IF \E r \in rows : r.id = key THEN CHOOSE r \in rows : r.id = key ELSE NoRow

Read(table, key) == [table |-> table, key |-> key]

----------------------------------------------------------------------------
(* app/api/scoring.py: score_interview up to the prediction calls *)

HttpError(status, detail) == [t |-> "error", status |-> status, detail |-> detail]

\* A pydantic model of the request body; model_dump() gives a dict that also
\* holds the optional fields left unset, as None.
Model(id, unset) == [t |-> "model", id |-> id, unset |-> unset]
model_dump(m) == [t |-> "obj", id |-> m.id, none |-> m.unset]

\* Lines 22-43: the transcript checks, segment by segment; the normalised
\* transcript or the error.
NormalizeTranscript(transcript) ==
    LET bad == {i \in 1..Len(transcript) :
                    transcript[i].speaker = None \/ transcript[i].content = None}
        idx == CHOOSE i \in bad : \A j \in bad : i <= j
    IN  IF transcript = << >>
        THEN HttpError(400, <<"Transcript required">>)
        ELSE IF bad # {}
        THEN HttpError(400, <<"Invalid transcript: ",
                 IF transcript[idx].speaker = None
                 THEN "missing speaker" ELSE "missing content">>)
        ELSE [t |-> "list", items |-> transcript]

\* Variant of IsOrgMember: the filter on organisation_id left out
IsMemberOfSomeOrg(org_id, user) == \E m \in OrgUsers : m.user_id = user

\* require_org_member (app/api/deps.py)
IsOrgMember(org_id, user) ==
    \E m \in OrgUsers : m.organisation_id = org_id /\ m.user_id = user

\* Variant of HasExplicitContext: an org_id in the request takes precedence
HasExplicitContextUnlessOrg(r) ==
    (Truthy(r.operating_environment) \/ Truthy(r.taxonomy)) /\ ~Given(r.org_id)

\* Variant of HasExplicitContext: "and" for "or"
HasExplicitContextBoth(r) == Truthy(r.operating_environment) /\ Truthy(r.taxonomy)

\* Line 53: the request carries explicit context
HasExplicitContext(r) == Truthy(r.operating_environment) \/ Truthy(r.taxonomy)

\* Line 54: ... but not both halves of it
IncompleteContext(r) == ~Truthy(r.operating_environment) \/ ~Truthy(r.taxonomy)

\* Lines 45-98: the rows read, the locals that hold the context and the error
\* raised, if any.
ResolveContext(r, user) ==
    LET explicit == HasExplicitContext(r)
        interview ==
            IF Given(r.interview_id) THEN DbGet(Interviews, r.interview_id) ELSE NoRow
        application_id ==
            IF interview # NoRow
            THEN OrElse(r.application_id, interview.application_id)
            ELSE r.application_id
        application ==
            IF Given(application_id) THEN DbGet(Applications, application_id) ELSE NoRow
        role_id ==
            IF application # NoRow
            THEN OrElse(r.role_id, application.job_role_id)
            ELSE r.role_id
        candidate_id ==
            IF application # NoRow THEN application.candidate_profile_id ELSE None
        job_role == IF Given(role_id) THEN DbGet(JobRoles, role_id) ELSE NoRow
        org_id ==
            IF job_role # NoRow
            THEN OrElse(r.org_id, job_role.organisation_id)
            ELSE r.org_id
        department_id ==
            IF job_role # NoRow
            THEN OrElse(r.department_id, job_role.department)
            ELSE r.department_id
        lookups ==
            (IF Given(r.interview_id) THEN <<Read("Interview", r.interview_id)>> ELSE << >>)
            \o (IF Given(application_id)
                THEN <<Read("Application", application_id)>> ELSE << >>)
            \o (IF Given(role_id) THEN <<Read("JobRole", role_id)>> ELSE << >>)
        organisation == DbGet(Organisations, org_id)
        loaded == load_org_culture_context(organisation)
        locals(env, tax) ==
            [operating_environment |-> env, taxonomy |-> tax,
             candidate_id |-> IF explicit THEN None ELSE candidate_id,
             resolved_org_id |-> IF explicit THEN r.org_id ELSE org_id,
             resolved_role_id |-> IF explicit THEN r.role_id ELSE role_id,
             resolved_department_id |->
                 IF explicit THEN r.department_id ELSE department_id,
             resolved_application_id |->
                 IF explicit THEN r.application_id ELSE application_id]
        out(rd, env, tax, err) ==
            [reads |-> rd, locals |-> locals(env, tax), error |-> err]
    IN  IF explicit
        THEN IF IncompleteContext(r)
             THEN out(<< >>, Null, Null, HttpError(400,
                    <<"Both operating_environment and taxonomy are required for fit scoring.">>))
             ELSE out(<< >>, model_dump(r.operating_environment),
                      model_dump(r.taxonomy), Null)
        ELSE IF ~Given(org_id)
        THEN out(lookups, Null, Null, HttpError(400,
                    <<"Organisation context is required for culture fit scoring.">>))
        ELSE IF ~IsOrgMember(org_id, user)
        THEN out(lookups \o <<Read("OrgUser", org_id)>>, Null, Null,
                 HttpError(403, <<"Not an org member">>))
        ELSE IF organisation = NoRow
        THEN out(lookups \o <<Read("OrgUser", org_id), Read("Organisation", org_id)>>,
                 Null, Null, HttpError(404, <<"Organisation not found">>))
        ELSE IF loaded.kind = "raise"
        THEN out(lookups \o <<Read("OrgUser", org_id), Read("Organisation", org_id)>>,
                 Null, Null, HttpError(400, loaded.msg))
        ELSE out(lookups \o <<Read("OrgUser", org_id), Read("Organisation", org_id)>>,
                 loaded.value[1], loaded.value[2], Null)

\* Lines 94-98
ContextGuard(locals) ==
    IF ~Truthy(locals.operating_environment) \/ ~Truthy(locals.taxonomy)
    THEN HttpError(400,
           <<"Organisation operating_environment and taxonomy are required for culture fit scoring.">>)
    ELSE Null

----------------------------------------------------------------------------
(* MLClient.predict_model1, predict_model2, get_combined_predictions *)

\* if x: payload[key] = x
IfSet(id) == IF Given(id) THEN id ELSE None
IfTruthy(v) == IF Truthy(v) THEN v ELSE Null

_build_model1_payload(transcript, candidate_id, role_id, department_id, interview_id, operating_environment, taxonomy, trace) ==
    [isDict |-> TRUE, transcript |-> transcript,
     candidate_id |-> IfSet(candidate_id), role_id |-> IfSet(role_id),
     department_id |-> IfSet(department_id), interview_id |-> IfSet(interview_id),
     operating_environment |-> IfTruthy(operating_environment),
     taxonomy |-> IfTruthy(taxonomy), trace |-> trace]

predict_model1(transcript, locals, r) ==
    NewCall(client.model1_url, "/predict",
            _build_model1_payload(transcript, locals.candidate_id,
                                  locals.resolved_role_id,
                                  locals.resolved_department_id, r.interview_id,
                                  locals.operating_environment, locals.taxonomy,
                                  r.trace))

predict_model2(transcript, r) ==
    NewCall(client.model2_url, "/predict/transcript",
            [isDict |-> TRUE,
             job_description |-> IF Given(r.job_description) THEN r.job_description ELSE "",
             resume_text |-> IF Given(r.resume_text) THEN r.resume_text ELSE "",
             transcript |-> transcript,
             role_title |-> IfSet(r.role_title), seniority |-> IfSet(r.seniority)])

\* The dict that replaces a failed call's result
Fallback(msg) ==
    [t |-> "body", error |-> Text(msg), scores |-> Null, summary |-> Null,
     fallback |-> TRUE]

\* Variant of Inline: an exception is handed on as gather returned it
InlineKeepingException(s, outcome) ==
    IF outcome.kind = "raise" THEN [t |-> "exception", type |-> outcome.type,
                                    msg |-> outcome.msg]
    ELSE outcome.value

\* Lines 260-272: one result of gather made a dict
Inline(s, outcome) ==
    IF outcome.kind = "raise" THEN Fallback(outcome.msg)
    ELSE IF ~IsDict(outcome.value)
    THEN Fallback(<<IF s = 1 THEN "Model 1" ELSE "Model 2",
                    " returned invalid response type">>)
    ELSE outcome.value

\* Variant of Gather: the outcomes in the order in which the coroutines settled
GatherInArrivalOrder(calls, arrival) == [i \in Services |-> arrival[i].outcome]

\* asyncio.gather(..., return_exceptions=True): the outcomes in the order of the
\* awaitables, whatever the order of arrival
Gather(calls, arrival) == [s \in Services |-> calls[s].outcome]

\* Lines 256-274
CombinedPredictions(calls, arrival) ==
    LET gathered == Gather(calls, arrival)
    IN  <<Inline(1, gathered[1]), Inline(2, gathered[2])>>

----------------------------------------------------------------------------
(* app/api/scoring.py: collect_dimensions and the aggregation *)

\* Python's round() of n/d for d > 0: to the nearest integer, ties to even
Round(n, d) ==
    LET q == n \div d
        r == n % d
    IN  IF 2 * r < d THEN q
        ELSE IF 2 * r > d THEN q + 1
        ELSE IF q % 2 = 0 THEN q ELSE q + 1

Max(a, b) == IF a >= b THEN a ELSE b
Min(a, b) == IF a <= b THEN a ELSE b

\* Variant of Clamp: the lower bound forgotten
ClampAbove(score_value) == Min(100, score_value)

\* max(0, min(100, score_value))
Clamp(score_value) == Max(0, Min(100, score_value))

ScoringDimension(name, score, rationale) ==
    [name |-> name, score |-> score, rationale |-> rationale]

\* name.strip() is empty
BlankName(name) == name \in {"", " "}

\* Lines 161-187 for one (name, data) of the scores map: the dimension, or the
\* note of a skipped entry, or the exception that neither except clause catches.
CollectEntry(name, data, source) ==
    LET shown == IF name = "" THEN "unknown" ELSE name
        payloadNote == <<source, " returned invalid score payload for ", shown, ".">>
        valueNote == <<source, " returned invalid score value for ", shown, ".">>
        rationale ==
            IF data.rationale.t = "str" /\ ~Blank(data.rationale.v)
            THEN <<source, ": ">> \o data.rationale.v
            ELSE <<source, " score.">>
    IN  IF BlankName(name) \/ ~IsDict(data) THEN [kind |-> "note", note |-> payloadNote]
        ELSE IF data.score = Absent THEN [kind |-> "note", note |-> payloadNote]
        ELSE IF data.score.t \in {"null", "str", "list", "nan"}
        THEN [kind |-> "note", note |-> valueNote]
        ELSE IF data.score.t = "inf" THEN [kind |-> "raise", type |-> "OverflowError"]
        ELSE [kind |-> "dimension",
              dimension |-> ScoringDimension(name, Clamp(Round(data.score.v10, 10)),
                                             rationale)]

\* The for loop over scores.items(), in the order of the map
RECURSIVE CollectEntries(_, _)
CollectEntries(items, source) ==
    IF items = << >>
    THEN [dimensions |-> << >>, notes |-> << >>, raised |-> Null]
    ELSE LET e == CollectEntry(items[1].name, items[1].data, source)
             rest == CollectEntries(Tail(items), source)
         IN  CASE e.kind = "raise" ->
                    [dimensions |-> << >>, notes |-> << >>,
                     raised |-> Raised(e.type, <<"cannot convert float infinity to integer">>)]
               [] e.kind = "note" ->
                    [rest EXCEPT !.notes = <<e.note>> \o @]
               [] e.kind = "dimension" ->
                    [rest EXCEPT !.dimensions = <<e.dimension>> \o @]

\* Variant of collect_dimensions: after the note of a failed result its scores
\* and summary are read all the same
collect_dimensions_reading_failed(result, source) ==
    LET none(note) == [dimensions |-> << >>, notes |-> <<note>>, raised |-> Null]
        failed ==
            IF Truthy(result.error)
            THEN <<(<<source, " failed: ">> \o result.error.v)>> ELSE << >>
        got == CollectEntries(result.scores.items, source)
        summary ==
            IF result.summary.t = "str" /\ ~Blank(result.summary.v)
            THEN <<(<<source, " summary: ">> \o result.summary.v)>>
            ELSE << >>
    IN  IF ~IsDict(result) THEN none(<<source, " returned an invalid response.">>)
        ELSE IF result.scores.t # "map"
        THEN IF failed # << >> THEN none(failed[1])
             ELSE none(<<source, " returned no scores.">>)
        ELSE IF got.raised # Null THEN got
        ELSE [got EXCEPT !.notes = failed \o @ \o summary]

\* Lines 144-193
collect_dimensions(result, source) ==
    LET none(note) == [dimensions |-> << >>, notes |-> <<note>>, raised |-> Null]
        got == CollectEntries(result.scores.items, source)
        summary ==
            IF result.summary.t = "str" /\ ~Blank(result.summary.v)
            THEN <<(<<source, " summary: ">> \o result.summary.v)>>
            ELSE << >>
    IN  IF ~IsDict(result) THEN none(<<source, " returned an invalid response.">>)
        ELSE IF Truthy(result.error)
        THEN none(<<source, " failed: ">> \o result.error.v)
        ELSE IF result.scores.t # "map" THEN none(<<source, " returned no scores.">>)
        ELSE IF got.raised # Null THEN got
        ELSE [got EXCEPT !.notes = @ \o summary]

\* sorted() of the dimension names the services use
NameOrder == <<" ", "Comm", "clarity", "comm", "depth", "ownership", "pace", "tech">>

RECURSIVE Sum(_)
Sum(seq) == IF seq = << >> THEN 0 ELSE seq[1] + Sum(Tail(seq))

\* SelectSeq with a two-argument test
RECURSIVE Named(_, _)
Named(dims, name) ==
    IF dims = << >> THEN << >>
    ELSE (IF dims[1].name = name THEN <<dims[1]>> ELSE << >>) \o Named(Tail(dims), name)

RECURSIVE Column(_, _)
Column(dims, field) ==
    IF dims = << >> THEN << >> ELSE <<dims[1][field]>> \o Column(Tail(dims), field)

\* The order in which the merged dimensions are listed
Listing(names) == SelectSeq(NameOrder, LAMBDA n : n \in names)

\* "; ".join(parts) of texts, None for no part
RECURSIVE Join(_)
Join(parts) ==
    IF parts = << >> THEN Null
    ELSE IF Len(parts) = 1 THEN parts[1]
    ELSE parts[1] \o <<"; ">> \o Join(Tail(parts))

\* The names of dims in the order of their first occurrence
RECURSIVE FirstSeen(_, _)
FirstSeen(dims, seen) ==
    IF dims = << >> THEN << >>
    ELSE IF dims[1].name \in seen THEN FirstSeen(Tail(dims), seen)
    ELSE <<dims[1].name>> \o FirstSeen(Tail(dims), seen \cup {dims[1].name})

\* Variant of MergeDimensions: the scores of a name are added up
MergeDimensionsSummed(all) ==
    LET names == {all[i].name : i \in 1..Len(all)}
        order == Listing(names)
        merged(name) ==
            LET group == Named(all, name)
            IN  ScoringDimension(name, Sum(Column(group, "score")),
                                 Join(Column(group, "rationale")))
    IN  [i \in 1..Len(order) |-> merged(order[i])]

\* Variant of MergeDimensions: a later score of a name replaces the earlier one
MergeDimensionsLastWins(all) ==
    LET names == {all[i].name : i \in 1..Len(all)}
        order == Listing(names)
        merged(name) ==
            LET group == Named(all, name)
            IN  ScoringDimension(name, group[Len(group)].score,
                                 Join(Column(group, "rationale")))
    IN  [i \in 1..Len(order) |-> merged(order[i])]

\* Variant of MergeDimensions: the names are not sorted
MergeDimensionsUnsorted(all) ==
    LET order == FirstSeen(all, {})
        merged(name) ==
            LET group == Named(all, name)
                scores == Column(group, "score")
            IN  ScoringDimension(name, Round(Sum(scores), Max(1, Len(scores))),
                                 Join(Column(group, "rationale")))
    IN  [i \in 1..Len(order) |-> merged(order[i])]

\* Lines 198-224: the dimensions of both models grouped by name, averaged and
\* sorted by name
MergeDimensions(all) ==
    LET names == {all[i].name : i \in 1..Len(all)}
        order == Listing(names)
        merged(name) ==
            LET group == Named(all, name)
                scores == Column(group, "score")
            IN  ScoringDimension(name, Round(Sum(scores), Max(1, Len(scores))),
                                 Join(Column(group, "rationale")))
    IN  [i \in 1..Len(order) |-> merged(order[i])]

\* Variant of Weight: a negative weight is used as it is
WeightSigned(rubric, name) == IF name \in DOMAIN rubric THEN rubric[name] ELSE 10

\* rubric.get(name, 1.0), negative weights made 0; in tenths
Weight(rubric, name) ==
    IF name \in DOMAIN rubric THEN Max(0, rubric[name]) ELSE 10

\* The weights of the rubric's entries of the given names, summed
RECURSIVE WeightOf(_, _)
WeightOf(rubric, names) ==
    IF names = {} THEN 0
    ELSE LET n == CHOOSE m \in names : TRUE
         IN  Max(0, rubric[n]) + WeightOf(rubric, names \ {n})

\* Variant of Overall: the weights are normalised against the whole rubric
OverallAgainstWholeRubric(dimensions, rubric) ==
    LET weights == [i \in 1..Len(dimensions) |-> Weight(rubric, dimensions[i].name)]
        names == {dimensions[i].name : i \in 1..Len(dimensions)}
        total_weight == Sum(weights) + WeightOf(rubric, DOMAIN rubric \ names)
        weighted_sum ==
            Sum([i \in 1..Len(dimensions) |-> dimensions[i].score * weights[i]])
    IN  IF total_weight <= 0
        THEN Round(Sum(Column(dimensions, "score")), Len(dimensions))
        ELSE Round(weighted_sum, total_weight)

\* Variant of Overall: 0 for a weight total that is not positive
OverallZeroWithoutWeight(dimensions, rubric) ==
    LET weights == [i \in 1..Len(dimensions) |-> Weight(rubric, dimensions[i].name)]
        total_weight == Sum(weights)
        weighted_sum ==
            Sum([i \in 1..Len(dimensions) |-> dimensions[i].score * weights[i]])
    IN  IF total_weight <= 0 THEN 0 ELSE Round(weighted_sum, total_weight)

\* Lines 236-266
Overall(dimensions, rubric) ==
    LET weights == [i \in 1..Len(dimensions) |-> Weight(rubric, dimensions[i].name)]
        total_weight == Sum(weights)
        weighted_sum ==
            Sum([i \in 1..Len(dimensions) |-> dimensions[i].score * weights[i]])
    IN  IF total_weight <= 0
        THEN Round(Sum(Column(dimensions, "score")), Len(dimensions))
        ELSE Round(weighted_sum, total_weight)

DefaultSummary == <<(<<"Automated scoring from model services.">>)>>

ScoringResponse(interview_id, overall_score, dimensions, summary) ==
    [t |-> "response", status |-> 200, interview_id |-> interview_id,
     overall_score |-> overall_score, dimensions |-> dimensions, summary |-> summary]

\* Lines 198-275: the answer computed from what was collected
Aggregate(r, model1, model2) ==
    LET dimensions == MergeDimensions(model1.dimensions \o model2.dimensions)
        rubric == IF r.rubric = Null THEN << >> ELSE r.rubric.w
        summary_notes == model1.notes \o model2.notes
    IN  IF dimensions = << >>
        THEN HttpError(502, <<"No model scores returned.">>)
        ELSE IF \E i \in 1..Len(dimensions) :
                    dimensions[i].score < 0 \/ dimensions[i].score > 100
        THEN HttpError(500, <<"Invalid dimension score: ", "out of range">>)
        ELSE ScoringResponse(r.interview_id, Overall(dimensions, rubric), dimensions,
                             IF summary_notes = << >> THEN DefaultSummary
                             ELSE summary_notes)

----------------------------------------------------------------------------
(* app/api/orgs.py: create_org, and load_org_culture_context on what it stored *)

\* settings.environment as configured, and str.lower() of it
Environments ==
    {"development", "dev", "local", "test", "Development", "TEST", "production",
     "staging"}

Lower(e) ==
    CASE e = "Development" -> "development"
      [] e = "TEST" -> "test"
      [] OTHER -> e

DevEnvironments == {"development", "dev", "local", "test"}

\* The taxonomy of the default framework: three signals
DefaultTaxonomy ==
    [t |-> "obj", id |-> "default_taxonomy",
     taxonomy_id |-> Text(<<"talenti_default_v1">>),
     version |-> Text(<<"2026.1">>),
     signals |-> List(<<"ownership_follow_through", "clear_structured_communication",
                        "adapts_under_change">>)]

\* Variant of _default_values_framework: the taxonomy left out
_default_values_framework_without_taxonomy ==
    Values(Obj("default_environment"), Null, Null, Null, Null, Null, Null, Null, FALSE)

_default_values_framework ==
    Values(Obj("default_environment"), Null, DefaultTaxonomy, Null, Null, Null, Null,
           Null, FALSE)

\* A dict with the given keys; value is what .get gives for each key a blob is
\* read by (a key may be there with null)
Dict(keys, value) == [t |-> "dict", keys |-> keys, value |-> value]

\* json.dumps of a dict: the text that json.loads parses back to its values
dumps(d) == Json(d.value)

\* A str that json.loads parses to decoded
JsonText(decoded) == [t |-> "text", parses |-> TRUE, value |-> decoded]

\* Lines 90-124: the stored blob, or the HTTPException
_resolve_values_framework(raw, environment) ==
    LET invalid(detail) == HttpError(400, <<detail>>)
        checked(parsed) ==
            IF "operating_environment" \notin parsed.keys \/ "taxonomy" \notin parsed.keys
            THEN invalid("values_framework must include operating_environment and taxonomy.")
            ELSE Returned(dumps(parsed))
    IN  IF raw = Null
        THEN IF Lower(environment) \in DevEnvironments
             THEN Returned(dumps(Dict({"operating_environment", "taxonomy"},
                                      _default_values_framework)))
             ELSE Returned(Null)
        ELSE IF raw.t = "text"
        THEN IF ~raw.parses THEN invalid("values_framework must be valid JSON.")
             ELSE IF raw.value.t # "dict"
             THEN invalid("values_framework JSON must be an object.")
             ELSE checked(raw.value)
        ELSE IF raw.t = "dict" THEN checked(raw)
        ELSE invalid("values_framework must be a JSON object or JSON string.")

OrganisationCreate(name, values_framework) ==
    [t |-> "organisation_create", name |-> name, values_framework |-> values_framework]

OrgUser(organisation_id, user_id, role) ==
    [t |-> "org_user", organisation_id |-> organisation_id, user_id |-> user_id,
     role |-> role]

OrganisationResponse(id, name) ==
    [t |-> "organisation_response", status |-> 200, id |-> id, name |-> name]

\* The id that the database gives the new organisation
NewOrgId == "o5"

EnvOnly == Values(Obj("E1"), Null, Null, Null, Null, Null, Null, Null, FALSE)
EnvAndTaxonomy == Values(Obj("E1"), Null, Obj("T1"), Null, Null, Null, Null, Null, FALSE)
TaxonomyOnly == Values(Null, Null, Obj("T1"), Null, Null, Null, Null, Null, FALSE)
EnvAndShorthand ==
    Values(Obj("E1"), Null, Null, Text(<<"t1">>), Text(<<"v1">>), List(<<"s1">>), Null,
           Null, FALSE)

\* What a client may send as values_framework: nothing, a dict, or a str
Frameworks ==
    {Null,
     Dict({"operating_environment", "taxonomy"}, EnvAndTaxonomy),
     Dict({"operating_environment"}, EnvOnly),
     Dict({"operating_environment", "taxonomy"}, TaxonomyOnly),
     Dict({"operating_environment", "taxonomy_id", "taxonomy_version", "signals"},
          EnvAndShorthand),
     JsonText(Dict({"operating_environment", "taxonomy"}, EnvAndTaxonomy)),
     JsonText(Dict({"taxonomy"}, TaxonomyOnly)),
     JsonText(List(<< >>)),
     NotJson}

\* The organisation that create_org stored
Created == CHOOSE row \in collected : row.t = "organisation"

InitOrg ==
    /\ client = DefaultClient
    /\ pc = "CreatingOrg"
    /\ call = NoCalls
    /\ settled = << >>
    /\ \E f \in Frameworks : req = OrganisationCreate("Acme", f)
    /\ reads = << >>
    /\ \E e \in Environments : ctx = [environment |-> e]
    /\ results = Idle
    /\ collected = {}
    /\ posted = {}
    /\ response = Idle

\* Lines 127-160; collected holds the rows committed to the database
CreateOrg ==
    /\ pc = "CreatingOrg"
    /\ LET values_framework ==
               _resolve_values_framework(req.values_framework, ctx.environment)
           org == Organisation(NewOrgId, values_framework.value)
           membership == OrgUser(org.id, User, "admin")
       IN  IF "status" \in DOMAIN values_framework
           THEN /\ pc' = "Error"
                /\ response' = values_framework
                /\ collected' = collected
           ELSE /\ pc' = "OrgCreated"
                /\ response' = OrganisationResponse(org.id, req.name)
                /\ collected' = collected \cup {org, membership}
    /\ UNCHANGED <<client, call, settled, req, reads, ctx, results, posted>>

\* load_org_culture_context on the stored organisation, as scoring does for it
LoadCreated ==
    /\ pc = "OrgCreated"
    /\ results' = load_org_culture_context(Created)
    /\ pc' = "OrgLoaded"
    /\ UNCHANGED <<client, call, settled, req, reads, ctx, collected, posted, response>>

NextOrg == CreateOrg \/ LoadCreated

SpecOrg == InitOrg /\ [][NextOrg]_vars

----------------------------------------------------------------------------
(* score_interview as a state machine *)

Segment(speaker, content) == [speaker |-> speaker, content |-> content]

Transcripts ==
    {<< >>,
     <<Segment("candidate", "I owned the migration.")>>,
     <<Segment(None, "Hello.")>>,
     <<Segment("interviewer", "Tell me more."), Segment("candidate", None)>>}

Rubric(w) == [t |-> "rubric", w |-> w]

\* {"comm": 0.7, "tech": 0.3}, weights in tenths
Rubrics == {Null, Rubric(("comm" :> 7) @@ ("tech" :> 3))}

ExplicitEnv == Model("Ereq", {"fatal_risks", "coachable_risks"})
ExplicitTax == Model("Treq", {"created_utc"})

Request(transcript, rubric, org_id, role_id, application_id, interview_id, env, tax) ==
    [interview_id |-> interview_id, transcript |-> transcript, rubric |-> rubric,
     job_description |-> None, resume_text |-> None, role_title |-> None,
     seniority |-> None, org_id |-> org_id, role_id |-> role_id,
     department_id |-> None, application_id |-> application_id,
     operating_environment |-> env, taxonomy |-> tax, trace |-> None]

\* Requests without explicit context, and requests with some of it; o9 and r9
\* are ids of no row
Requests ==
    { Request(tr, ru, o, r, a, i, Null, Null) :
        tr \in Transcripts, ru \in Rubrics, o \in {None, "o1", "o2", "o3", "o4", "o9"},
        r \in {None, "r1", "r9"}, a \in {None, "a1"}, i \in {"i1", "i2"} }
    \cup
    { Request(tr, ru, o, r, a, "i1", env, tax) :
        tr \in Transcripts, ru \in Rubrics, o \in {None, "o1", "o4"},
        r \in {None, "r1"}, a \in {None, "a1"},
        env \in {Null, ExplicitEnv}, tax \in {Null, ExplicitTax} }

\* The configurations of the MLClient singleton: the default, and one whose
\* model 1 URL is set empty in the settings
Clients == {DefaultClient, [DefaultClient EXCEPT !.model1_url = ""]}

\* The answers of a prediction service to one POST of a scoring request
ServiceResponses ==
    [kind : {"status"}, code : {"503"}]
        \cup [kind : {"ok"}, data : {JsonList} \cup Bodies]

Init ==
    /\ client \in Clients
    /\ pc = "ValidatingInput"
    /\ call = NoCalls
    /\ settled = << >>
    /\ req \in Requests
    /\ reads = << >>
    /\ ctx = Idle
    /\ results = Idle
    /\ collected = Idle
    /\ posted = {}
    /\ response = Idle

\* Variant of ValidateInput: the transcript is passed on unchecked
ValidateInputUnchecked ==
    /\ pc = "ValidatingInput"
    /\ pc' = "ResolvingContext"
    /\ ctx' = [transcript_data |-> [t |-> "list", items |-> req.transcript]]
    /\ UNCHANGED <<client, call, settled, req, reads, results, collected, posted, response>>

\* Lines 22-43
ValidateInput ==
    /\ pc = "ValidatingInput"
    /\ LET transcript_data == NormalizeTranscript(req.transcript)
       IN  IF transcript_data.t = "error"
           THEN /\ pc' = "Error"
                /\ response' = transcript_data
                /\ ctx' = ctx
           ELSE /\ pc' = "ResolvingContext"
                /\ response' = response
                /\ ctx' = [transcript_data |-> transcript_data]
    /\ UNCHANGED <<client, call, settled, req, reads, results, collected, posted>>

\* Lines 45-98
ResolveCulture ==
    /\ pc = "ResolvingContext"
    /\ LET res == ResolveContext(req, User)
           err == IF res.error # Null THEN res.error ELSE ContextGuard(res.locals)
       IN  /\ reads' = res.reads
           /\ ctx' = [transcript_data |-> ctx.transcript_data] @@ res.locals
           /\ IF err # Null
              THEN pc' = "Error" /\ response' = err
              ELSE pc' = "Dispatching" /\ response' = response
    /\ UNCHANGED <<client, call, settled, req, results, collected, posted>>

\* Lines 100-114 and ml_client.py 234-254: both coroutines are handed to gather
Dispatch ==
    /\ pc = "Dispatching"
    /\ call' = (1 :> predict_model1(ctx.transcript_data, ctx, req))
                 @@ (2 :> predict_model2(ctx.transcript_data, req))
    /\ pc' = "Awaiting"
    /\ UNCHANGED <<client, settled, req, reads, ctx, results, collected, posted, response>>

\* A step of coroutine s that leaves it as c.  When it settles the last of the
\* two, gather returns and get_combined_predictions hands both dicts to
\* score_interview.
Progress(s, c) ==
    LET calls == [call EXCEPT ![s] = c]
    IN  /\ pc = "Awaiting"
        /\ settled' = Arrive(s, c)
        /\ IF \A t \in Services : calls[t].pc = "settled"
           THEN /\ results' = CombinedPredictions(calls, settled')
                /\ call' = NoCalls
                /\ pc' = "ValidatingResponses"
           ELSE /\ results' = results
                /\ call' = calls
                /\ pc' = pc
        /\ posted' = Sent(s, call[s], c)
        /\ UNCHANGED <<client, req, reads, ctx, collected, response>>

\* Variant of AllStarted: an answer is handled as soon as one task has started
SomeStarted == \E t \in Services : call[t].pc # "created"

\* The event loop runs the tasks of gather in order, each up to its first
\* suspension, before any answer or timer is handled.
AllStarted == \A t \in Services : call[t].pc # "created"

TaskStart(s) ==
    /\ call[s].pc = "created"
    /\ \A t \in Services : t < s => call[t].pc # "created"
    /\ Progress(s, StartCall(call[s]))

TaskRespond(s, r) ==
    /\ call[s].pc = "inflight"
    /\ AllStarted
    /\ Progress(s, RespondCall(call[s], r))

TaskWake(s) ==
    /\ call[s].pc = "sleeping"
    /\ AllStarted
    /\ Progress(s, WakeCall(call[s]))

\* Lines 134-142
ValidateResponses ==
    /\ pc = "ValidatingResponses"
    /\ IF ~IsDict(results[1])
       THEN /\ pc' = "Error"
            /\ response' = HttpError(502, <<"Culture model response was not a JSON object">>)
       ELSE IF ~IsDict(results[2])
       THEN /\ pc' = "Error"
            /\ response' = HttpError(502, <<"Skillset model response was not a JSON object">>)
       ELSE /\ pc' = "Collecting"
            /\ response' = response
    /\ UNCHANGED <<client, call, settled, req, reads, ctx, results, collected, posted>>

\* Lines 195-196; an exception that collect_dimensions lets through ends the
\* request with the framework's 500.
Collect ==
    /\ pc = "Collecting"
    /\ LET model1 == collect_dimensions(results[1], "Culture model")
           model2 == collect_dimensions(results[2], "Skillset model")
       IN  IF model1.raised # Null \/ model2.raised # Null
           THEN /\ pc' = "Error"
                /\ response' = HttpError(500, <<"Internal Server Error">>)
                /\ collected' = collected
           ELSE /\ pc' = "Aggregating"
                /\ response' = response
                /\ collected' = <<model1, model2>>
    /\ UNCHANGED <<client, call, settled, req, reads, ctx, results, posted>>

\* Variant of Finish: the no-scores error is handed back as the result
FinishReturningError ==
    /\ pc = "Aggregating"
    /\ response' = Aggregate(req, collected[1], collected[2])
    /\ pc' = "Done"
    /\ UNCHANGED <<client, call, settled, req, reads, ctx, results, collected, posted>>

\* Lines 198-275
Finish ==
    /\ pc = "Aggregating"
    /\ response' = Aggregate(req, collected[1], collected[2])
    /\ pc' = IF response'.t = "error" THEN "Error" ELSE "Done"
    /\ UNCHANGED <<client, call, settled, req, reads, ctx, results, collected, posted>>

Next ==
    \/ ValidateInput
    \/ ResolveCulture
    \/ Dispatch
    \/ \E s \in Services : TaskStart(s)
    \/ \E s \in Services, r \in ServiceResponses : TaskRespond(s, r)
    \/ \E s \in Services : TaskWake(s)
    \/ ValidateResponses
    \/ Collect
    \/ Finish

Spec == Init /\ [][Next]_vars

\* The requests for interview i1 that name no role and no application, have no
\* rubric, and name no organisation if they bring their context
CourseRequests ==
    {r \in Requests :
        /\ r.interview_id = "i1" /\ r.role_id = None /\ r.application_id = None
        /\ r.rubric = Null
        /\ Len(r.transcript) <= 1
        /\ Truthy(r.operating_environment) => r.org_id = None}

InitCourse == Init /\ req \in CourseRequests /\ client = DefaultClient

\* Every POST ends, with an answer or with the client's timeout, every sleep
\* ends, and the event loop runs whatever is ready
SpecCourse == InitCourse /\ [][Next]_vars /\ WF_vars(Next)

----------------------------------------------------------------------------
(* Specification of collect_dimensions and the aggregation applied to any pair
   of result dicts and any rubric *)

\* The dicts get_combined_predictions can hand over: any JSON object of a
\* service, or the fallback of a failed call
RawResults ==
    Bodies \cup {BodyA, BodyB, BodyGoodReordered, BodyRange, BodyTie, BodyCase,
                 BodyOnlyInf, BodyEmptyScores}
           \cup {Fallback(<<"Model service returned error: ", "503">>)}

ZeroWeights == [n \in {NameOrder[i] : i \in 1..Len(NameOrder)} |-> 0]

\* Rubrics, weights in tenths: none, {}, two that name the reported dimensions,
\* all weights zero, all zero or negative, no name in common, and mixed ones,
\* one of them with a name that no service reports
AggregateRubrics ==
    {Null,
     Rubric(<< >>),
     Rubric(("comm" :> 7) @@ ("tech" :> 3)),
     Rubric(("ownership" :> 7) @@ ("clarity" :> 3)),
     Rubric(ZeroWeights),
     Rubric(("comm" :> 0 - 5) @@ ("ownership" :> 0 - 10) @@ ZeroWeights),
     Rubric("other" :> 5),
     Rubric(("comm" :> 0) @@ ("tech" :> 25)),
     Rubric(("comm" :> 0) @@ ("tech" :> 25) @@ ("other" :> 20)),
     Rubric("comm" :> 0 - 5)}

InitAggregate ==
    /\ client = DefaultClient
    /\ pc = "Collecting"
    /\ call = NoCalls
    /\ settled = << >>
    /\ \E ru \in AggregateRubrics :
          req = Request(<<Segment("candidate", "I owned the migration.")>>, ru,
                        None, None, None, "i1", ExplicitEnv, ExplicitTax)
    /\ reads = << >>
    /\ ctx = Idle
    /\ results \in RawResults \X RawResults
    /\ collected = Idle
    /\ posted = {}
    /\ response = Idle

NextAggregate == Collect \/ Finish

SpecAggregate == InitAggregate /\ [][NextAggregate]_vars

----------------------------------------------------------------------------
(* Specification of one direct call of _make_request with arbitrary arguments *)

Urls == {"", "http://model-service-1:8001"}
Endpoints == {"", "/predict"}
Payloads == {[isDict |-> FALSE], [isDict |-> TRUE]}

InitRequest ==
    /\ \E m \in 0..DefaultMaxRetries : client = [DefaultClient EXCEPT !.max_retries = m]
    /\ pc = "Transport"
    /\ \E u \in Urls, e \in Endpoints, p \in Payloads :
          call = (1 :> NewCall(u, e, p)) @@ (2 :> NoCall)
    /\ settled = << >>
    /\ req = Idle
    /\ reads = << >>
    /\ ctx = Idle
    /\ results = Idle
    /\ collected = Idle
    /\ posted = {}
    /\ response = Idle

Direct(s, c) ==
    /\ pc = "Transport"
    /\ call' = [call EXCEPT ![s] = c]
    /\ settled' = Arrive(s, c)
    /\ UNCHANGED <<client, pc, req, reads, ctx, results, collected, response>>
    /\ posted' = Sent(s, call[s], c)

Start(s) == call[s].pc = "created" /\ Direct(s, StartCall(call[s]))
Respond(s, r) == call[s].pc = "inflight" /\ Direct(s, RespondCall(call[s], r))
Wake(s) == call[s].pc = "sleeping" /\ Direct(s, WakeCall(call[s]))

NextRequest ==
    \/ \E s \in Services : Start(s)
    \/ \E s \in Services, r \in Responses : Respond(s, r)
    \/ \E s \in Services : Wake(s)

SpecRequest == InitRequest /\ [][NextRequest]_vars

\* Every POST ends, with an answer or with the client's timeout, and every sleep
\* ends
SpecRequestFair == SpecRequest /\ WF_vars(NextRequest)

----------------------------------------------------------------------------
(* Properties of _make_request, checked under SpecRequest *)

\* Every answer so far to coroutine c was a failure of the given kind
AllFailed(c, kind) == c.kinds = {kind} /\ c.last.kind = kind

\* C3: a call whose every attempt fails with a non-2xx status, or whose every
\* attempt fails at connection level, makes exactly max_retries + 1 POSTs, sleeps
\* 2^k seconds before retry k + 1 and not after the last attempt, and then raises
\* MLServiceError with the last status code (the connection error's description).
C3_RetryBackoff ==
    \A s \in Services, kind \in {"status", "conn"} :
        LET c == call[s]
        IN  AllFailed(c, kind) =>
              /\ c.attempts <= client.max_retries + 1
              /\ \A i \in 1..Len(c.sleeps) : c.sleeps[i] = 2^(i - 1)
              /\ c.pc = "inflight" => Len(c.sleeps) = c.attempts - 1
              /\ c.pc = "sleeping" => Len(c.sleeps) = c.attempts
              /\ c.pc = "settled" =>
                    /\ c.attempts = client.max_retries + 1
                    /\ Len(c.sleeps) = client.max_retries
                    /\ c.outcome.kind = "raise"
                    /\ c.outcome.type = "MLServiceError"
                    /\ c.outcome.msg =
                         IF kind = "status"
                         THEN <<"Model service returned error: ", c.last.code>>
                         ELSE <<"Failed to connect to model service: ", c.last.desc>>

\* The default client gave up after four failed statuses and sleeps of 1, 2, 4 s
C3_Witness ==
    /\ client.max_retries = 3
    /\ call[1].pc = "settled"
    /\ AllFailed(call[1], "status")
    /\ call[1].attempts = 4
    /\ call[1].sleeps = <<1, 2, 4>>
    /\ call[1].outcome = Raised("MLServiceError", <<"Model service returned error: ", "503">>)

\* C4: whatever the upstream does, _make_request returns a dict or raises
\* MLServiceError; no other value and no other exception type leaves it.
C4_DictOrMLServiceError ==
    \A s \in Services :
        LET c == call[s]
        IN  IF c.pc = "settled"
            THEN \/ c.outcome.kind = "return" /\ IsDict(c.outcome.value)
                 \/ c.outcome.kind = "raise" /\ c.outcome.type = "MLServiceError"
            ELSE c.outcome = Pending

\* An exception of another type inside the HTTP client came out as MLServiceError
C4_Witness ==
    /\ call[1].pc = "settled"
    /\ call[1].last.kind = "unexpected"
    /\ call[1].outcome = Raised("MLServiceError", <<"Unexpected error: ", "RuntimeError">>)

\* The 2xx answers whose body is not a JSON object
BadBody(r) == r.kind = "notjson" \/ (r.kind = "ok" /\ ~IsDict(r.data))

\* C5: only failed statuses and connection errors are retried.  A call with an
\* empty URL, an empty endpoint or a payload that is no dict raises MLServiceError
\* without any POST; a 2xx answer whose body is not a JSON object raises
\* MLServiceError at once (after exactly one POST when it is the first answer);
\* no sleep follows either.
C5_NoRetryOnBadInputOrBody ==
    \A s \in Services :
        LET c == call[s]
            badArgs == c.url = "" \/ c.endpoint = "" \/ ~c.payload.isDict
        IN  /\ (c.pc # "none" /\ badArgs) =>
                 /\ c.attempts = 0 /\ c.sleeps = << >>
                 /\ c.pc \in {"created", "settled"}
                 /\ c.pc = "settled" =>
                       c.outcome.kind = "raise" /\ c.outcome.type = "MLServiceError"
            /\ BadBody(c.last) =>
                 /\ c.pc = "settled"
                 /\ c.outcome.kind = "raise" /\ c.outcome.type = "MLServiceError"
                 /\ Len(c.sleeps) = c.attempts - 1
                 /\ c.kinds = {} => (c.attempts = 1 /\ c.sleeps = << >>)
            /\ c.pc = "sleeping" => c.last.kind \in {"status", "conn"}
            /\ c.attempts > 1 => c.kinds # {}

\* A first answer that was 2xx but not JSON ended the call after one POST
C5_Witness ==
    /\ call[1].pc = "settled"
    /\ call[1].last.kind = "notjson"
    /\ call[1].attempts = 1
    /\ call[1].sleeps = << >>
    /\ call[1].outcome.kind = "raise"

----------------------------------------------------------------------------
(* Properties of score_interview, checked under Spec *)

Source(s) == IF s = 1 THEN "Culture model" ELSE "Skillset model"

\* The outcome with which coroutine s settled
OutcomeOf(s) == settled[CHOOSE i \in 1..Len(settled) : settled[i].svc = s].outcome

\* The request ended after both prediction calls had settled
EndedAfterCalls == pc \in {"Done", "Error"} /\ Len(settled) = 2

\* score_interview got as far as resolving the context
Resolved ==
    /\ pc \notin {"ValidatingInput", "ResolvingContext"}
    /\ "resolved_org_id" \in DOMAIN ctx

\* A scores entry that collect_dimensions is meant to accept: a named object whose
\* score is a number or a numeric string
ValidEntry(item) ==
    /\ ~BlankName(item.name)
    /\ IsDict(item.data)
    /\ item.data.score.t \in {"num", "numstr"}

\* The call returned an object, free of an error field, whose scores map has a
\* valid entry
Survives(o) ==
    /\ o.kind = "return"
    /\ IsDict(o.value)
    /\ ~Truthy(o.value.error)
    /\ o.value.scores.t = "map"
    /\ \E i \in 1..Len(o.value.scores.items) : ValidEntry(o.value.scores.items[i])

\* C1: when exactly one of the two prediction calls raises and the other returns
\* an object whose scores map has a valid entry, the request still returns a
\* ScoringResponse, computed from the surviving service's entries alone, whose
\* summary has a note naming the failed service and its failure message.
C1_PartialFailureIsolation ==
    \A f, g \in Services :
        (f # g /\ EndedAfterCalls /\ OutcomeOf(f).kind = "raise" /\ Survives(OutcomeOf(g)))
        => /\ pc = "Done"
           /\ response.t = "response"
           /\ response.dimensions =
                MergeDimensions(
                    collect_dimensions(OutcomeOf(g).value, Source(g)).dimensions)
           /\ response.overall_score =
                Overall(response.dimensions,
                        IF req.rubric = Null THEN << >> ELSE req.rubric.w)
           /\ \E i \in 1..Len(response.summary) :
                response.summary[i] = <<Source(f), " failed: ">> \o OutcomeOf(f).msg

\* What score_interview answers for the results (r1, r2) of the two models
AnswerFor(r, r1, r2) ==
    LET model1 == collect_dimensions(r1, "Culture model")
        model2 == collect_dimensions(r2, "Skillset model")
    IN  IF model1.raised # Null \/ model2.raised # Null
        THEN HttpError(500, <<"Internal Server Error">>)
        ELSE Aggregate(r, model1, model2)

\* C2: whichever call settles first and however often either is retried, model
\* 1's outcome is result 0 and model 2's outcome is result 1, and the answer is
\* the one these two outcomes give.
C2_ResultsByPosition ==
    /\ results # Idle =>
          /\ Len(settled) = 2
          /\ results = <<Inline(1, OutcomeOf(1)), Inline(2, OutcomeOf(2))>>
    /\ EndedAfterCalls =>
          response = AnswerFor(req, Inline(1, OutcomeOf(1)), Inline(2, OutcomeOf(2)))

\* Model 2 settled first, with a result unlike model 1's, and the request succeeded
C2_Witness ==
    /\ pc = "Done"
    /\ Len(settled) = 2
    /\ settled[1].svc = 2
    /\ OutcomeOf(1) = Returned(BodyOwn)
    /\ OutcomeOf(2) = Returned(BodyGood)
    /\ response.t = "response"

\* The client-error answers: invalid transcript, and the context errors
ClientError(resp) == resp.t = "error" /\ resp.status \in {400, 403, 404}

\* C6: no POST goes to either service in a request that ends with an
\* invalid-transcript or context error; validation and context resolution have
\* both succeeded before the first POST.
C6_NoCallBeforeContext ==
    /\ (posted # {} \/ call # NoCalls) =>
          /\ NormalizeTranscript(req.transcript).t # "error"
          /\ ResolveContext(req, User).error = Null
          /\ pc \notin {"ValidatingInput", "ResolvingContext", "Dispatching"}
    /\ (pc = "Error" /\ ClientError(response)) => (posted = {} /\ call = NoCalls)

\* A request with complete explicit context was refused for its transcript
C6_Witness ==
    /\ pc = "Error"
    /\ response = HttpError(400, <<"Invalid transcript: ", "missing content">>)
    /\ Truthy(req.operating_environment) /\ Truthy(req.taxonomy)
    /\ posted = {}

\* C7: with explicit operating_environment and taxonomy in the request, these two
\* are what model 1 is sent and no row is read to resolve the context, even when
\* org_id, role_id or application_id is given.
C7_ExplicitContextWins ==
    (Truthy(req.operating_environment) /\ Truthy(req.taxonomy)) =>
        /\ reads = << >>
        /\ \A p \in posted :
              p.svc = 1 =>
                 /\ p.json.operating_environment = model_dump(req.operating_environment)
                 /\ p.json.taxonomy = model_dump(req.taxonomy)
        /\ (Resolved /\ pc # "Error") =>
              /\ ctx.operating_environment = model_dump(req.operating_environment)
              /\ ctx.taxonomy = model_dump(req.taxonomy)

\* Explicit context was sent although org_id named o1, whose taxonomy is T1
C7_Witness ==
    /\ req.org_id = "o1"
    /\ Truthy(req.operating_environment) /\ Truthy(req.taxonomy)
    /\ \E p \in posted :
          /\ p.svc = 1
          /\ p.json.taxonomy = model_dump(ExplicitTax)
          /\ p.json.taxonomy # Obj("T1")

\* The request carries exactly one of operating_environment and taxonomy
OneOfTwo(r) == Truthy(r.operating_environment) # Truthy(r.taxonomy)

\* C8: a request with exactly one of operating_environment and taxonomy fails
\* with 400 without any lookup or prediction call; the pair sent to model 1 is
\* the request's pair or the pair of one organisation's blob.
C8_BothOrNeither ==
    /\ (OneOfTwo(req) /\ Resolved) =>
          /\ pc = "Error"
          /\ response = HttpError(400,
               <<"Both operating_environment and taxonomy are required for fit scoring.">>)
          /\ reads = << >>
          /\ posted = {} /\ call = NoCalls
    /\ OneOfTwo(req) => (reads = << >> /\ posted = {})
    /\ \A p \in posted :
          p.svc = 1 =>
             \/ /\ Truthy(req.operating_environment) /\ Truthy(req.taxonomy)
                /\ p.json.operating_environment = model_dump(req.operating_environment)
                /\ p.json.taxonomy = model_dump(req.taxonomy)
             \/ \E org \in Organisations :
                   load_org_culture_context(org) =
                       Returned(<<p.json.operating_environment, p.json.taxonomy>>)

\* Only the operating environment was given, next to the org_id of o1
C8_Witness ==
    /\ Truthy(req.operating_environment) /\ ~Truthy(req.taxonomy)
    /\ req.org_id = "o1"
    /\ pc = "Error"
    /\ response = HttpError(400,
         <<"Both operating_environment and taxonomy are required for fit scoring.">>)
    /\ reads = << >>

\* The organisation id by the stated precedence
RowOr(rows, key, field) ==
    IF Given(key) /\ \E r \in rows : r.id = key
    THEN (CHOOSE r \in rows : r.id = key)[field]
    ELSE None

PrecedenceOrg(r) ==
    LET application ==
            IF Given(r.application_id) THEN r.application_id
            ELSE RowOr(Interviews, r.interview_id, "application_id")
        role ==
            IF Given(r.role_id) THEN r.role_id
            ELSE RowOr(Applications, application, "job_role_id")
    IN  IF Given(r.org_id) THEN r.org_id
        ELSE RowOr(JobRoles, role, "organisation_id")

OrgContextRequired ==
    HttpError(400, <<"Organisation context is required for culture fit scoring.">>)

\* C9: without explicit context the organisation is the request's org_id, else
\* that of the job role, which is role_id, else the role of the application,
\* which is application_id, else the interview's; with none the request fails
\* with the 400 that names the organisation context, and nothing is posted.
C9_OrgPrecedence ==
    (~Truthy(req.operating_environment) /\ ~Truthy(req.taxonomy) /\ Resolved) =>
        /\ ctx.resolved_org_id = PrecedenceOrg(req)
        /\ IF Given(PrecedenceOrg(req))
           THEN response # OrgContextRequired
           ELSE pc = "Error" /\ response = OrgContextRequired /\ posted = {}

\* The organisation came from the interview's application's job role, and its
\* context was dispatched
C9_Witness ==
    /\ req.org_id = None /\ req.role_id = None /\ req.application_id = None
    /\ req.interview_id = "i1"
    /\ Resolved
    /\ ctx.resolved_org_id = "o2"
    /\ posted # {}

----------------------------------------------------------------------------
(* Properties of load_org_culture_context, checked under SpecCulture *)

NonEmptyObj(x) == IsDict(x) /\ x # EmptyObj

\* The blob is a JSON object
IsObject(blob) == blob # Null /\ blob.parses /\ blob.value.t = "values"

\* taxonomy_id, taxonomy_version and a list of signals are all there
ShorthandComplete(v) ==
    /\ Truthy(v.taxonomy_id)
    /\ Truthy(v.taxonomy_version)
    /\ (v.signals.t = "list" \/ v.taxonomy_signals.t = "list")

RaisedContextError(o) == o.kind = "raise" /\ o.type = "CultureContextError"

\* What the claim and its amendment have in common, for the operating
\* environment env that the blob is taken to have
FailsClosed(blob, env, o) ==
    /\ (IsObject(blob) /\ NonEmptyObj(env) /\ NonEmptyObj(blob.value.taxonomy))
          => o = Returned(<<env, blob.value.taxonomy>>)
    /\ ~IsObject(blob) => RaisedContextError(o)
    /\ (IsObject(blob) /\ (env = Null \/ ~IsDict(env))) => RaisedContextError(o)
    /\ (IsObject(blob) /\ blob.value.taxonomy = Null /\ ~ShorthandComplete(blob.value))
          => RaisedContextError(o)
    /\ o.kind = "return" => (NonEmptyObj(o.value[1]) /\ NonEmptyObj(o.value[2]))
    /\ o.kind = "return" \/ RaisedContextError(o)

C11_ShorthandTaxonomyComposed ==
    (/\ pc = "CultureDone"
     /\ IsObject(req.values_framework)
     /\ ~IsDict(req.values_framework.value.taxonomy)
     /\ ShorthandComplete(req.values_framework.value)
     /\ NonEmptyObj(extract_operating_environment(req.values_framework.value)))
    => LET v == req.values_framework.value
       IN  /\ response.kind = "return"
           /\ response.value[2].taxonomy_id = v.taxonomy_id
           /\ response.value[2].version = v.taxonomy_version
           /\ response.value[2].signals.t = "list"
           /\ response.value[2].signals \in {v.signals, v.taxonomy_signals}

----------------------------------------------------------------------------
(* Properties of collect_dimensions and the aggregation, checked under
   SpecAggregate *)

Answered == pc = "Done" /\ response.t = "response"

InRange(dims) == \A i \in 1..Len(dims) : dims[i].score \in 0..100

\* C12: every ScoringDimension that is emitted, by collect_dimensions and in the
\* returned ScoringResponse, has an integer score from 0 to 100, whatever the raw
\* scores are (negative, above 100, fractional, numeric strings).
C12_ScoresWithinRange ==
    /\ collected # Idle =>
          (InRange(collected[1].dimensions) /\ InRange(collected[2].dimensions))
    /\ Answered => InRange(response.dimensions)

\* Raw scores of -5 and 120.5 were answered as 0 and 100
C12_Witness ==
    /\ Answered
    /\ results = <<BodyRange, BodyError>>
    /\ \E i, j \in 1..Len(response.dimensions) :
          /\ response.dimensions[i] = ScoringDimension("comm", 0, <<"Culture model", " score.">>)
          /\ response.dimensions[j].name = "tech" /\ response.dimensions[j].score = 100

\* The dimensions that the two services reported under name, model 1 first
Reported(name) ==
    LET of(s) ==
            IF \E j \in 1..Len(collected[s].dimensions) :
                   collected[s].dimensions[j].name = name
            THEN <<collected[s].dimensions[
                     CHOOSE j \in 1..Len(collected[s].dimensions) :
                         collected[s].dimensions[j].name = name]>>
            ELSE << >>
    IN  of(1) \o of(2)

\* k is an integer nearest to n/d, for d > 0
Nearest(k, n, d) == 2 * d * k - 2 * n \in (0 - d)..d

RubricOf(r) == IF r.rubric = Null THEN << >> ELSE r.rubric.w

\* C13: the score of each output dimension is the mean, rounded to a nearest
\* integer, of the clamped scores that the one or two services reported under
\* exactly that name, and its rationale is their rationales joined by "; ".
\* A = {ownership: 90}, B = {clarity: 50, ownership: 70} and the rubric
\* {ownership: 0.7, clarity: 0.3} give clarity 50, ownership 80, overall 71.
C13_MeanPerName ==
    Answered =>
        /\ \A i \in 1..Len(response.dimensions) :
              LET d == response.dimensions[i]
                  g == Reported(d.name)
              IN  /\ Len(g) \in {1, 2}
                  /\ Nearest(d.score, Sum([k \in 1..Len(g) |-> g[k].score]), Len(g))
                  /\ d.rationale =
                        IF Len(g) = 1 THEN g[1].rationale
                        ELSE g[1].rationale \o <<"; ">> \o g[2].rationale
        /\ \A s \in Services : \A j \in 1..Len(collected[s].dimensions) :
              \E i \in 1..Len(response.dimensions) :
                  response.dimensions[i].name = collected[s].dimensions[j].name
        /\ (/\ results = <<BodyA, BodyB>>
            /\ RubricOf(req) = ("ownership" :> 7) @@ ("clarity" :> 3))
           => /\ Len(response.dimensions) = 2
              /\ response.dimensions[1].name = "clarity"
              /\ response.dimensions[1].score = 50
              /\ response.dimensions[2].name = "ownership"
              /\ response.dimensions[2].score = 80
              /\ response.overall_score = 71

\* The example of the text, with the joined rationale of ownership
C13_Witness ==
    /\ Answered
    /\ results = <<BodyA, BodyB>>
    /\ RubricOf(req) = ("ownership" :> 7) @@ ("clarity" :> 3)
    /\ response.overall_score = 71
    /\ response.dimensions[2].rationale =
          <<"Culture model", " score.", "; ", "Skillset model", " score.">>

\* The place of a name in the ascending order of names
Rank(name) == CHOOSE i \in 1..Len(NameOrder) : NameOrder[i] = name

\* result with the entries of its scores map in the reverse order
Reversed(result) ==
    IF result.scores.t = "map"
    THEN [result EXCEPT !.scores.items =
              [i \in 1..Len(@) |-> @[Len(@) + 1 - i]]]
    ELSE result

\* C14: the output dimensions are listed in ascending order of name, each name
\* once, and their names and scores and the overall score are the same when the
\* entries of the services' score maps come in another order and when the two
\* services' results are exchanged.
C14_SortedAndOrderIndependent ==
    Answered =>
        LET dims == response.dimensions
            reordered == AnswerFor(req, Reversed(results[1]), Reversed(results[2]))
            exchanged == AnswerFor(req, results[2], results[1])
        IN  /\ \A i, j \in 1..Len(dims) :
                  i < j => Rank(dims[i].name) < Rank(dims[j].name)
            /\ {dims[i].name : i \in 1..Len(dims)} =
                  UNION {{collected[s].dimensions[j].name :
                             j \in 1..Len(collected[s].dimensions)} : s \in Services}
            /\ reordered.t = "response"
            /\ reordered.dimensions = dims
            /\ reordered.overall_score = response.overall_score
            /\ exchanged.t = "response"
            /\ Column(exchanged.dimensions, "name") = Column(dims, "name")
            /\ Column(exchanged.dimensions, "score") = Column(dims, "score")
            /\ exchanged.overall_score = response.overall_score

\* Model 1 reported tech before comm, model 2 tech and ownership
C14_Witness ==
    /\ Answered
    /\ results = <<BodyGoodReordered, BodyOwn>>
    /\ Column(response.dimensions, "name") = <<"comm", "ownership", "tech">>

\* The effective weight of a merged dimension, in tenths
EffectiveWeight(r, name) ==
    IF name \notin DOMAIN RubricOf(r) THEN 10
    ELSE IF RubricOf(r)[name] < 0 THEN 0
    ELSE RubricOf(r)[name]

TotalWeight ==
    Sum([i \in 1..Len(response.dimensions) |->
            EffectiveWeight(req, response.dimensions[i].name)])

\* C15: when the effective weights sum to a positive value, overall_score is
\* sum(score x w) / sum(w) rounded to a nearest integer, w being the rubric's
\* value for the name, 1.0 for a name the rubric lacks, 0 for a negative value.
C15_WeightedOverall ==
    (Answered /\ TotalWeight > 0) =>
        Nearest(response.overall_score,
                Sum([i \in 1..Len(response.dimensions) |->
                        response.dimensions[i].score
                            * EffectiveWeight(req, response.dimensions[i].name)]),
                TotalWeight)

\* comm has the weight -0.5 and tech none: the overall score is that of tech
C15_Witness ==
    /\ Answered
    /\ RubricOf(req) = ("comm" :> 0 - 5)
    /\ results = <<BodyGood, BodyError>>
    /\ response.overall_score = 60

\* C16: overall_score is the rounded unweighted mean of the merged scores when
\* the effective weights sum to 0 or less and when no reported name is in the
\* rubric; a weight total of zero fails no request.
C16_UnweightedFallback ==
    /\ (/\ Answered
        /\ \/ TotalWeight <= 0
           \/ \A i \in 1..Len(response.dimensions) :
                 response.dimensions[i].name \notin DOMAIN RubricOf(req))
       => Nearest(response.overall_score,
                  Sum(Column(response.dimensions, "score")),
                  Len(response.dimensions))
    /\ (/\ pc \in {"Done", "Error"}
        /\ collected # Idle
        /\ collected[1].dimensions \o collected[2].dimensions # << >>)
       => Answered

\* Every weight is zero and the overall score is the mean of 80, 90 and 68
C16_Witness ==
    /\ Answered
    /\ RubricOf(req) = ZeroWeights
    /\ results = <<BodyGood, BodyOwn>>
    /\ Column(response.dimensions, "score") = <<80, 90, 68>>
    /\ response.overall_score = 79

\* The result has no entry that collect_dimensions is meant to accept
NothingValid(result) ==
    \/ Truthy(result.error)
    \/ result.scores.t # "map"
    \/ \A i \in 1..Len(result.scores.items) : ~ValidEntry(result.scores.items[i])

\* C17: when neither service yields a valid dimension the request ends with the
\* 502 "No model scores returned.", never with a ScoringResponse.
C17_NoScoresIsAnError ==
    (pc \in {"Done", "Error"} /\ NothingValid(results[1]) /\ NothingValid(results[2]))
    => /\ pc = "Error"
       /\ response = HttpError(502, <<"No model scores returned.">>)

----------------------------------------------------------------------------
(* Properties of the course of score_interview, checked under Spec and SpecCourse *)

\* C18: when both prediction calls raise, get_combined_predictions raises
\* MLServiceError and the request ends in the dispatching step with the 502 of
\* the upstream error; no two results are returned and nothing is collected.
C18_BothFailedAborts ==
    (/\ Len(settled) = 2
     /\ OutcomeOf(1).kind = "raise"
     /\ OutcomeOf(2).kind = "raise")
    => /\ results = Idle
       /\ collected = Idle
       /\ pc = "Error"
       /\ response.t = "error"
       /\ response.status = 502
       /\ response.detail[1] = "Failed to get predictions: "

\* The steps of a request in their order; awaiting the two calls is part of
\* Dispatching
Steps ==
    <<"ValidatingInput", "ResolvingContext", "Dispatching", "ValidatingResponses",
      "Collecting", "Aggregating", "Done">>

Step(p) == IF p = "Awaiting" THEN "Dispatching" ELSE p

Ended == pc \in {"Done", "Error"}

\* C20: a request goes through ValidatingInput, ResolvingContext, Dispatching,
\* ValidatingResponses, Collecting, Aggregating and Done in this order, no step
\* skipped or taken twice; from any step before Done it may go to Error instead,
\* with an error and no ScoringResponse; once in Done or Error nothing changes
\* any more, no call is issued; and every request ends in Done or in Error.
C20_StepsInOrder ==
    /\ [][/\ Step(pc') # Step(pc) =>
               \/ \E i \in 1..(Len(Steps) - 1) :
                     Step(pc) = Steps[i] /\ Step(pc') = Steps[i + 1]
               \/ Step(pc') = "Error" /\ ~Ended
          /\ pc' = "Done" => response'.t = "response"
          /\ pc' = "Error" => response'.t = "error"
          /\ ~Ended' => response' = Idle
          /\ Ended => UNCHANGED vars]_vars
    /\ <>Ended

\* A request that got through every step to Done
C20_Witness ==
    /\ pc = "Done"
    /\ response.t = "response"
    /\ collected # Idle
    /\ Len(settled) = 2
    /\ posted # {}

----------------------------------------------------------------------------
(* Properties of create_org, checked under SpecOrg *)

\* C19: in a development or test environment an organisation created without
\* values_framework is stored with a non-null blob that has operating_environment
\* and taxonomy, so load_org_culture_context on it returns a pair and raises no
\* CultureContextError; create_org makes the creator a member of it.
C19_DefaultFrameworkSeeded ==
    (/\ pc \in {"OrgCreated", "OrgLoaded"}
     /\ req.values_framework = Null
     /\ ctx.environment \in {"development", "dev", "local", "test", "Development", "TEST"})
    => /\ Created.values_framework # Null
       /\ Created.values_framework.parses
       /\ NonEmptyObj(Created.values_framework.value.operating_environment)
       /\ NonEmptyObj(Created.values_framework.value.taxonomy)
       /\ OrgUser(Created.id, User, "admin") \in collected
       /\ response.status = 200 /\ response.id = Created.id
       /\ pc = "OrgLoaded" =>
             /\ results.kind = "return"
             /\ results.value = <<Created.values_framework.value.operating_environment,
                                  Created.values_framework.value.taxonomy>>

\* An organisation created in the test environment without values_framework,
\* whose context was loaded
C19_Witness ==
    /\ pc = "OrgLoaded"
    /\ req.values_framework = Null
    /\ ctx.environment = "test"
    /\ results.kind = "return"
    /\ results.value[2].taxonomy_id = Text(<<"talenti_default_v1">>)

----------------------------------------------------------------------------
(* Properties of the two concurrent calls, checked under Spec *)

\* The sleeps of a call that used up its retries: 1, 2, 4, ...
AllSleeps == [i \in 1..client.max_retries |-> 2^(i - 1)]

StatusFailure(msg) == msg[1] = "Model service returned error: "

\* Coroutine c has had an answer to a POST
HadAnswer(c) == c.last # NoResponse

\* Coroutine c failed every attempt it has: max_retries + 1 POSTs and all sleeps
Exhausted(c) == c.attempts = client.max_retries + 1 /\ c.sleeps = AllSleeps

AfterCalls ==
    \/ results # Idle
    \/ collected # Idle
    \/ pc \in {"ValidatingResponses", "Collecting", "Aggregating", "Done"}
    \/ pc = "Error" /\ posted # {}

ConcurrentCalls ==
    /\ (call[1].pc = "none") <=> (call[2].pc = "none")
    /\ \A s \in Services :
          HadAnswer(call[s]) => \A t \in Services : call[t].pc \notin {"none", "created"}
    /\ pc = "Awaiting" =>
          /\ results = Idle /\ collected = Idle /\ response = Idle
          /\ \E s \in Services : call[s].pc # "settled"
    /\ AfterCalls =>
          /\ Len(settled) = 2
          /\ {settled[i].svc : i \in 1..2} = Services
          /\ call = NoCalls
    /\ \A s \in Services :
          (/\ call[s].pc = "settled"
           /\ call[s].outcome.kind = "raise"
           /\ StatusFailure(call[s].outcome.msg))
          => Exhausted(call[s])

ConcurrentStep ==
    /\ (pc = "Awaiting" /\ pc' = "Awaiting") =>
          /\ \E s \in Services : \A t \in Services \ {s} : call'[t] = call[t]
          /\ \A s \in Services : call[s].pc = "settled" => call'[s] = call[s]
    /\ (pc = "Awaiting" /\ pc' # "Awaiting") =>
          /\ pc' = "ValidatingResponses"
          /\ \E t \in Services :
                /\ call[t].pc = "inflight"
                /\ ("fallback" \in DOMAIN results'[t]
                      /\ StatusFailure(results'[t].error.v)) => Exhausted(call[t])
                /\ \A s \in Services \ {t} :
                      /\ call[s].pc = "settled"
                      /\ results'[s] = Inline(s, call[s].outcome)

\* C21: both prediction calls are started before an answer to either is handled,
\* and nothing is collected or aggregated until both have settled, each having
\* returned or finally failed after all its retries and sleeps; a result that one
\* call returned is held unchanged while the other retries and is then handed
\* over, and a failed call leaves the other to run to its own end.
C21_BothSettleBeforeCollection == []ConcurrentCalls /\ [][ConcurrentStep]_vars

\* Model 1 had returned while model 2 was in its third sleep; the request is
\* still awaiting
C21_Witness ==
    /\ pc = "Awaiting"
    /\ call[1].pc = "settled"
    /\ call[1].outcome = Returned(BodyGood)
    /\ call[2].pc = "sleeping"
    /\ call[2].sleeps = <<1, 2, 4>>
    /\ results = Idle

----------------------------------------------------------------------------
(* Properties of the notes of collect_dimensions, checked under SpecAggregate *)

Other(s) == 3 - s

\* result with nothing but its error field
ErrorOnly(result) == [result EXCEPT !.scores = Null, !.summary = Null]

\* C22: a raw result whose error field is set (non-empty) gives exactly one note,
\* which quotes the error, and no dimension; its scores, valid or not, and its
\* summary have no part in the answer, which is the one that the result with
\* only its error field would get.
C22_FailedResultGivesOneNote ==
    \A s \in Services :
        Truthy(results[s].error) =>
            /\ collected # Idle =>
                  /\ collected[s].dimensions = << >>
                  /\ collected[s].notes = <<(<<Source(s), " failed: ">> \o results[s].error.v)>>
            /\ pc \in {"Done", "Error"} =>
                  response = AnswerFor(req, IF s = 1 THEN ErrorOnly(results[1]) ELSE results[1],
                                       IF s = 2 THEN ErrorOnly(results[2]) ELSE results[2])
            /\ Answered =>
                  /\ \A i \in 1..Len(response.dimensions) :
                        response.dimensions[i].name \in
                            {collected[Other(s)].dimensions[j].name :
                                j \in 1..Len(collected[Other(s)].dimensions)}
                  /\ \A i \in 1..Len(response.summary) :
                        response.summary[i][1] = Source(s) =>
                            response.summary[i][2] = " failed: "

\* {error: "degraded", scores: {comm: {score: 80}}, summary: "Partial."} from model
\* 1 next to a good answer of model 2, of which alone the answer is made
C22_Witness ==
    /\ Answered
    /\ results = <<BodyErrorScores, BodyOwn>>
    /\ Column(response.dimensions, "name") = <<"ownership", "tech">>
    /\ response.summary =
          <<(<<"Culture model", " failed: ", "degraded">>),
            (<<"Skillset model", " summary: ", "Solid.">>)>>

\* The note that collect_dimensions makes of a summary
SummaryNote(s) == <<Source(s), " summary: ">> \o results[s].summary.v

\* The raw result of service s is an object, free of an error, whose summary is
\* a non-empty string
HasSummary(s) ==
    /\ IsDict(results[s])
    /\ ~Truthy(results[s].error)
    /\ results[s].summary.t = "str"
    /\ results[s].summary.v # << >>

\* C23: whenever a raw result that is an object with no error set has a non-empty
\* string summary, collect_dimensions produces the source-labelled summary note,
\* whatever becomes of the dimensions, also when the result yields none.
C23_SummaryAlwaysSurfaces ==
    \A s \in Services :
        (pc # "Collecting" /\ HasSummary(s)) =>
            /\ collected # Idle
            /\ \E i \in 1..Len(collected[s].notes) : collected[s].notes[i] = SummaryNote(s)

\* The raw result of service s is an object, free of an error, with a scores map
HasScores(s) ==
    /\ IsDict(results[s])
    /\ ~Truthy(results[s].error)
    /\ results[s].scores.t = "map"

\* A diagnostic note of service s for the scores entry of the given name
Diagnostic(note, s, name) ==
    /\ note[1] = Source(s)
    /\ note[2] \in {" returned invalid score payload for ",
                    " returned invalid score value for "}
    /\ note[3] = IF name = "" THEN "unknown" ELSE name

\* C24: a malformed entry of a scores map (a value that is no object, no score
\* field, a score that is null, not numeric, NaN or infinite, an empty or blank
\* name) fails no request: collect_dimensions returns, the entry gives no
\* dimension but a diagnostic note, every valid entry of both services gives its
\* dimension, and a request with a valid entry is answered with a ScoringResponse.
C24_MalformedEntrySkipped ==
    pc # "Collecting" =>
        /\ collected # Idle
        /\ \A s \in Services :
              HasScores(s) =>
                 \A i \in 1..Len(results[s].scores.items) :
                    LET item == results[s].scores.items[i]
                        dims == collected[s].dimensions
                        notes == collected[s].notes
                    IN  IF ValidEntry(item)
                        THEN \E j \in 1..Len(dims) : dims[j].name = item.name
                        ELSE /\ \A j \in 1..Len(dims) : dims[j].name # item.name
                             /\ \E j \in 1..Len(notes) : Diagnostic(notes[j], s, item.name)
        /\ (/\ pc \in {"Done", "Error"}
            /\ \E s \in Services :
                  /\ HasScores(s)
                  /\ \E i \in 1..Len(results[s].scores.items) :
                        ValidEntry(results[s].scores.items[i]))
           => Answered

\* A note that says of service s that it failed, gave no scores or had an entry
\* skipped
Attributing(note, s) ==
    /\ note[1] = Source(s)
    /\ note[2] \in {" failed: ", " returned no scores.", " returned an invalid response.",
                    " returned invalid score payload for ",
                    " returned invalid score value for "}

\* Every entry of the scores map of service s is usable, and there is one
FullyUsable(s) ==
    /\ HasScores(s)
    /\ results[s].scores.items # << >>
    /\ \A i \in 1..Len(results[s].scores.items) : ValidEntry(results[s].scores.items[i])

\* C25: no partial result is returned silently.  Whenever a ScoringResponse is
\* returned although a service contributed no dimension (it failed, returned no
\* scores map, or a scores map with no usable entry, an empty map included) or
\* had an entry skipped, the summary has a note that attributes this to the
\* service; the default summary is given only when both services were fully
\* usable.
C25_NoSilentPartialResult ==
    Answered =>
        /\ \A s \in Services :
              ~FullyUsable(s) =>
                 \E i \in 1..Len(response.summary) : Attributing(response.summary[i], s)
        /\ response.summary = DefaultSummary => \A s \in Services : FullyUsable(s)

----------------------------------------------------------------------------
(* Properties of what get_combined_predictions returns, checked under Spec *)

NotAnObject ==
    {HttpError(502, <<"Culture model response was not a JSON object">>),
     HttpError(502, <<"Skillset model response was not a JSON object">>)}

\* C26: both values that get_combined_predictions returns are JSON objects: what
\* the call returned, or {error, fallback: true} with the message of the
\* exception it raised; so the re-check in score_interview never fails and no
\* request ends with the 502 "... response was not a JSON object".
C26_ResultsAreObjects ==
    /\ results # Idle =>
          \A s \in Services :
              /\ IsDict(results[s])
              /\ IF OutcomeOf(s).kind = "raise"
                 THEN /\ results[s].fallback
                      /\ results[s].error = Text(OutcomeOf(s).msg)
                      /\ results[s].scores = Null /\ results[s].summary = Null
                 ELSE results[s] = OutcomeOf(s).value
    /\ response \notin NotAnObject
    /\ (results # Idle /\ pc = "Error") => collected # Idle \/ response.status = 500

\* Model 1 answered 200 with a JSON list and model 2 used up its retries: both
\* results are fallback objects and the re-check has passed
C26_Witness ==
    /\ pc = "Collecting"
    /\ results[1] =
          Fallback(<<"Unexpected error: ", "Model service returned invalid response shape">>)
    /\ results[2] = Fallback(<<"Model service returned error: ", "503">>)

----------------------------------------------------------------------------
(* Properties of the retries of _make_request, checked under SpecRequestFair *)

\* The counts of coroutine c agree: one counter for every kind of failure
RetryCounts(c) ==
    /\ c.attempts <= client.max_retries + 1
    /\ \A i \in 1..Len(c.sleeps) : c.sleeps[i] = 2^(i - 1)
    /\ c.pc = "inflight" => (Len(c.sleeps) = c.attempts - 1 /\ c.retry_count = c.attempts - 1)
    /\ c.pc = "sleeping" => (Len(c.sleeps) = c.attempts /\ c.attempts <= client.max_retries)
    /\ (c.pc = "settled" /\ c.attempts >= 1) => Len(c.sleeps) = c.attempts - 1
    /\ c.pc = "settled" =>
          \/ /\ c.outcome.kind = "return"
             /\ c.last.kind = "ok"
             /\ IsDict(c.outcome.value)
             /\ c.outcome.value = c.last.data
          \/ c.outcome.kind = "raise" /\ c.outcome.type = "MLServiceError"

\* A step of coroutine s: a 2xx answer with an object ends the call at once, and
\* a call that has ended does nothing more
RetryStep(s) ==
    /\ call[s].pc = "settled" => call'[s] = call[s]
    /\ (/\ call[s].pc = "inflight"
        /\ call'[s] # call[s]
        /\ call'[s].last.kind = "ok"
        /\ IsDict(call'[s].last.data))
       => /\ call'[s].pc = "settled"
          /\ call'[s].outcome = Returned(call'[s].last.data)
          /\ call'[s].attempts = call[s].attempts
          /\ call'[s].sleeps = call[s].sleeps

\* C27: failed statuses and connection failures share one retry counter.  For
\* any mix and order of the two, a call makes at most max_retries + 1 POSTs, the
\* k-th retry comes after a sleep of 2^(k-1) seconds, the first 2xx answer with an
\* object is returned with no further POST or sleep, and the call ends, with an
\* object or with MLServiceError, if every POST and every sleep ends.
C27_SharedRetryCounter ==
    /\ [](\A s \in Services : RetryCounts(call[s]))
    /\ [][\A s \in Services : RetryStep(s)]_vars
    /\ <>(call[1].pc = "settled")

\* After a failed status, a connection failure and another failed status the
\* fourth POST was answered with an object
C27_Witness ==
    /\ client.max_retries = 3
    /\ call[1].pc = "settled"
    /\ call[1].kinds = {"status", "conn"}
    /\ call[1].attempts = 4
    /\ call[1].sleeps = <<1, 2, 4>>
    /\ call[1].outcome = Returned(BodyGood)

----------------------------------------------------------------------------
(* Properties of the organisation lookup of score_interview, checked under Spec *)

NotAMember == HttpError(403, <<"Not an org member">>)

\* The rows of the user's memberships
MemberOf(org_id) ==
    \E m \in OrgUsers : m.organisation_id = org_id /\ m.user_id = User

\* The request brings no context of its own
LookupPath == ~Truthy(req.operating_environment) /\ ~Truthy(req.taxonomy)

\* C28: on the lookup path the user's membership of the resolved organisation is
\* tested before the organisation's row, and with it its values_framework, is
\* read.  A user who is no member gets 403, also for an id of no organisation
\* (so never 404), without the row being read; and every context that is posted
\* to model 1 on this path is the stored context of an organisation of which the
\* user is a member.
C28_MembershipBeforeOrganisation ==
    /\ \A i \in 1..Len(reads) :
          reads[i].table = "Organisation" =>
             /\ MemberOf(reads[i].key)
             /\ \E j \in 1..(i - 1) : reads[j] = Read("OrgUser", reads[i].key)
    /\ (/\ LookupPath /\ Resolved
        /\ Given(PrecedenceOrg(req))
        /\ ~MemberOf(PrecedenceOrg(req)))
       => /\ pc = "Error"
          /\ response = NotAMember
          /\ reads[Len(reads)] = Read("OrgUser", PrecedenceOrg(req))
          /\ posted = {} /\ call = NoCalls
    /\ LookupPath =>
          \A p \in posted :
             p.svc = 1 =>
                \E org \in Organisations :
                   /\ MemberOf(org.id)
                   /\ org.id = PrecedenceOrg(req)
                   /\ load_org_culture_context(org) =
                         Returned(<<p.json.operating_environment, p.json.taxonomy>>)

\* A request that names o9, the id of no organisation, was refused with 403 after
\* the membership test
C28_Witness ==
    /\ req.org_id = "o9"
    /\ pc = "Error"
    /\ response = NotAMember
    /\ reads # << >>
    /\ reads[Len(reads)] = Read("OrgUser", "o9")

----------------------------------------------------------------------------
(* Properties of the rubric, checked under SpecAggregate *)

\* The names of the merged dimensions of the answer
ReportedNames == {response.dimensions[i].name : i \in 1..Len(response.dimensions)}

Weights(rubric) == IF rubric = Null THEN << >> ELSE rubric.w

\* The entries of the weights w for the given names
Restrict(w, names) == [n \in DOMAIN w \cap names |-> w[n]]

\* What the same results get with another rubric
WithRubric(rubric) == AnswerFor([req EXCEPT !.rubric = rubric], results[1], results[2])

SameScores(answer) ==
    /\ answer.t = "response"
    /\ answer.dimensions = response.dimensions
    /\ answer.overall_score = response.overall_score

\* C29: rubric entries whose names match no merged dimension change nothing: a
\* request whose rubric differs only in such entries, or lacks them, gets the same
\* dimensions and overall_score.  A reported dimension of weight 0 is listed, and
\* while another reported dimension has a positive weight overall_score is the
\* weighted mean of the other dimensions alone.
C29_UnmatchedAndZeroWeights ==
    Answered =>
        /\ \A ru \in AggregateRubrics :
              Restrict(Weights(ru), ReportedNames)
                  = Restrict(Weights(req.rubric), ReportedNames)
              => SameScores(WithRubric(ru))
        /\ SameScores(WithRubric(Rubric(Restrict(Weights(req.rubric), ReportedNames))))
        /\ \A s \in Services : \A j \in 1..Len(collected[s].dimensions) :
              collected[s].dimensions[j].name \in ReportedNames
        /\ \A i \in 1..Len(response.dimensions) :
              (EffectiveWeight(req, response.dimensions[i].name) = 0 /\ TotalWeight > 0)
              => LET others == 1..Len(response.dimensions) \ {i}
                     w(k) == IF k \in others
                             THEN EffectiveWeight(req, response.dimensions[k].name) ELSE 0
                 IN  response.overall_score =
                        Round(Sum([k \in 1..Len(response.dimensions) |->
                                      response.dimensions[k].score * w(k)]),
                              Sum([k \in 1..Len(response.dimensions) |-> w(k)]))

\* The rubric {comm: 0, tech: 2.5, other: 2.0} for the dimensions comm 80 and
\* tech 60: comm is listed and overall_score is 60
C29_Witness ==
    /\ Answered
    /\ RubricOf(req) = ("comm" :> 0) @@ ("tech" :> 25) @@ ("other" :> 20)
    /\ results = <<BodyGood, BodyError>>
    /\ Column(response.dimensions, "name") = <<"comm", "tech">>
    /\ Column(response.dimensions, "score") = <<80, 60>>
    /\ response.overall_score = 60

----------------------------------------------------------------------------
(* Properties of the range of the answer, checked under SpecAggregate *)

\* C30: for any rubric of finite weights every merged dimension score and the
\* overall_score of a returned ScoringResponse are from 0 to 100; the range
\* assertion of the weighting loop holds for every dimension that is merged, so no
\* request ends with the 500 "Invalid dimension score".
C30_AnswerWithinRange ==
    /\ Answered =>
          /\ InRange(response.dimensions)
          /\ response.overall_score \in 0..100
    /\ collected # Idle =>
          InRange(MergeDimensions(collected[1].dimensions \o collected[2].dimensions))
    /\ response # Idle =>
          ~(/\ response.t = "error"
            /\ response.status = 500
            /\ response.detail[1] = "Invalid dimension score: ")

\* Both services reported -5, 120.5, "77.5" and 49.5; with the weights 0.7 for
\* comm and 0.3 for tech the answer has the scores 50, 0, 78 and 100 and the
\* overall score 53
C30_Witness ==
    /\ Answered
    /\ results = <<BodyRange, BodyRange>>
    /\ RubricOf(req) = ("comm" :> 7) @@ ("tech" :> 3)
    /\ Column(response.dimensions, "score") = <<50, 0, 78, 100>>
    /\ response.overall_score = 53

====
